---- MODULE Spec2Model ----
(***************************************************************************)
(* Model of the gating-tree reconstruction and phenotype annotation done   *)
(* by the POST /analyze handler of the R backend (plumber API).            *)
(*                                                                         *)
(* R values are modelled by what R does with them:                         *)
(*   - a character string is a sequence of one-character strings, so that  *)
(*     paste0, grepl, sub and as.integer are computed, not assumed;        *)
(*   - a character vector is a sequence of such strings (character(0) is   *)
(*     the empty sequence);                                                *)
(*   - a number with decimals (a threshold) is an integer count of         *)
(*     thousandths;                                                        *)
(*   - an optional list field is a record with a null flag.                *)
(***************************************************************************)
EXTENDS Integers, Sequences, FiniteSets, TLC

(***************************************************************************)
(* Bounds of the model.                                                    *)
(***************************************************************************)
MaxFiles == 1
MaxRows == 2
MaxLevels == 3
MaxKeywords == 3
MaxColumns == 3
MaxRequested == 2

(***************************************************************************)
(* Strings.                                                                *)
(***************************************************************************)
Digits == <<"0", "1", "2", "3", "4", "5", "6", "7", "8", "9">>

IsDigit(c) == \E d \in 1..Len(Digits) : Digits[d] = c

DigitVal(c) == (CHOOSE d \in 1..Len(Digits) : Digits[d] = c) - 1

RECURSIVE NatToStr(_)
NatToStr(n) ==
    IF n < 10 THEN <<Digits[n + 1]>>
    ELSE NatToStr(n \div 10) \o <<Digits[(n % 10) + 1]>>

\* as.character of a whole number
IntToStr(n) == IF n < 0 THEN <<"-">> \o NatToStr(0 - n) ELSE NatToStr(n)

RECURSIVE StrToNat(_)
StrToNat(s) ==
    IF s = <<>> THEN 0
    ELSE 10 * StrToNat(SubSeq(s, 1, Len(s) - 1)) + DigitVal(s[Len(s)])

RECURSIVE StripTrailingZeros(_)
StripTrailingZeros(s) ==
    IF s # <<>> /\ s[Len(s)] = "0" THEN StripTrailingZeros(SubSeq(s, 1, Len(s) - 1))
    ELSE s

\* as.character of a number held in thousandths (500 is "0.5", 2000 is "2")
NumToStr(t) ==
    LET a == IF t < 0 THEN 0 - t ELSE t
        frac == StripTrailingZeros(<<Digits[((a \div 100) % 10) + 1],
                                     Digits[((a \div 10) % 10) + 1],
                                     Digits[(a % 10) + 1]>>)
        sign == IF t < 0 THEN <<"-">> ELSE <<>>
    IN sign \o NatToStr(a \div 1000) \o (IF frac = <<>> THEN <<>> ELSE <<".">> \o frac)

\* round(x, 2) on thousandths; the thresholds of the model have no ties
Round2(t) == ((t + 5) \div 10) * 10

S_Pop == <<"P", "o", "p", "_">>
S_Node == <<"N", "o", "d", "e", "_">>
S_Marker == <<"M", "a", "r", "k", "e", "r", "_">>
S_root == <<"r", "o", "o", "t">>
S_NA == <<"N", "A">>
S_CD3 == <<"C", "D", "3">>
S_CD4 == <<"C", "D", "4">>
S_CD8 == <<"C", "D", "8">>
S_FSC == <<"F", "S", "C">>

(***************************************************************************)
(* R vectors.                                                              *)
(***************************************************************************)
\* the sequence a:b, which counts down when b < a
RColon(a, b) ==
    IF a <= b THEN [i \in 1..(b - a + 1) |-> a + i - 1]
    ELSE [i \in 1..(a - b + 1) |-> a - i + 1]

RemoveAt(v, k) == [i \in 1..(Len(v) - 1) |-> IF i < k THEN v[i] ELSE v[i + 1]]

\* v[i] for a vector v and one whole-number index i: the selected elements
\* and whether the result is the single value NA
RIndex(v, i) ==
    IF i > Len(v) THEN [na |-> TRUE, v |-> <<>>]
    ELSE IF i >= 1 THEN [na |-> FALSE, v |-> <<v[i]>>]
    ELSE IF i = 0 THEN [na |-> FALSE, v |-> <<>>]
    ELSE IF 0 - i <= Len(v) THEN [na |-> FALSE, v |-> RemoveAt(v, 0 - i)]
    ELSE [na |-> FALSE, v |-> v]

\* an optional field of a node: NULL, NA, or a vector
Null == [null |-> TRUE, na |-> FALSE, v |-> <<>>]
Val(r) == [null |-> FALSE, na |-> r.na, v |-> r.v]
Scalar(x) == [null |-> FALSE, na |-> FALSE, v |-> <<x>>]
NAValue == [null |-> FALSE, na |-> TRUE, v |-> <<>>]

SeqToSet(s) == {s[i] : i \in 1..Len(s)}

\* tabulate(labels): the count of each id 1..max(labels)
tabulate(labels) ==
    LET pos == {labels[i] : i \in {j \in 1..Len(labels) : labels[j] >= 1}}
        top == IF pos = {} THEN 0 ELSE CHOOSE m \in pos : \A x \in pos : x <= m
    IN [p \in 1..top |-> Cardinality({i \in 1..Len(labels) : labels[i] = p})]

(***************************************************************************)
(* Values held by the raw tree description when it is a list: a scalar is  *)
(* a string or a number; an element of the list is either a list of named  *)
(* scalars (a node descriptor) or an atomic vector (a level of labels).    *)
(***************************************************************************)
Chr(s) == [num |-> FALSE, s |-> s, n |-> 0]
Num(t) == [num |-> TRUE, s |-> <<>>, n |-> t]

ListEntry(keys, vals) == [isList |-> TRUE, keys |-> keys, vals |-> vals]
VecEntry(vals) == [isList |-> FALSE, keys |-> <<>>, vals |-> vals]

\* as.character of one scalar
AsCharacter(sc) == IF sc.num THEN NumToStr(sc.n) ELSE sc.s

\* as.character(unlist(entry, use.names = FALSE))
UnlistLabels(entry) == [i \in 1..Len(entry.vals) |-> AsCharacter(entry.vals[i])]

(***************************************************************************)
(* Canonical nodes and links, as held in tree_nodes / tree_links.          *)
(***************************************************************************)
Node(id, name, marker, cells, threshold) ==
    [id |-> id, name |-> name, marker |-> marker, cells |-> cells, threshold |-> threshold]

NullNode == Node(0, <<>>, <<>>, Null, Null)

Link(source, target) == [source |-> source, target |-> target]

\* lst[[k]] <- v on a list: extends the list when k is past its end
ListAssign(lst, k, v) ==
    IF k <= Len(lst) THEN [lst EXCEPT ![k] = v]
    ELSE [i \in 1..k |-> IF i <= Len(lst) THEN lst[i] ELSE IF i = k THEN v ELSE NullNode]

(***************************************************************************)
(* Level-list strategy: build_tree_from_mark_tree_levels.                  *)
(***************************************************************************)
is_leaf_label(label) == label # <<>> /\ \A i \in 1..Len(label) : IsDigit(label[i])

\* a marker that keeps the suffix of the label
MarkerOfWholeLabel(label) == label

marker_from_label(label) ==
    LET ks == {k \in 1..Len(label) :
                  /\ label[k] = "."
                  /\ k < Len(label)
                  /\ \A j \in (k + 1)..Len(label) : IsDigit(label[j])}
    IN IF ks = {} THEN label ELSE SubSeq(label, 1, (CHOOSE k \in ks : TRUE) - 1)

\* as.integer of a label of digits; NA past the largest R integer
LabelIsNAInt(label) == StrToNat(label) > 2147483647

create_node(label, label_counts, st) ==
    LET current_id == st.tree_node_id + 1
    IN IF is_leaf_label(label)
       THEN LET pop_na == LabelIsNAInt(label)
                pop_id == StrToNat(label)
                cells_in_pop == IF ~pop_na /\ pop_id <= Len(label_counts)
                                THEN Val(RIndex(label_counts, pop_id))
                                ELSE NAValue
                nm == S_Pop \o (IF pop_na THEN S_NA ELSE IntToStr(pop_id))
            IN [st |-> [st EXCEPT !.tree_node_id = current_id,
                                  !.nodes = ListAssign(@, current_id,
                                                Node(current_id, nm, <<nm>>, cells_in_pop, Null))],
                id |-> current_id,
                is_internal |-> FALSE]
       ELSE [st |-> [st EXCEPT !.tree_node_id = current_id,
                               !.nodes = ListAssign(@, current_id,
                                             Node(current_id, label, <<marker_from_label(label)>>,
                                                  Null, Null))],
             id |-> current_id,
             is_internal |-> TRUE]

\* the loop over the first level
RECURSIVE FirstLevel(_, _, _, _)
FirstLevel(level_nodes, k, label_counts, acc) ==
    IF k > Len(level_nodes) THEN acc
    ELSE LET node_info == create_node(level_nodes[k], label_counts, acc.st)
         IN FirstLevel(level_nodes, k + 1, label_counts,
                       [st |-> node_info.st,
                        internal_ids |-> IF node_info.is_internal
                                         THEN Append(acc.internal_ids, node_info.id)
                                         ELSE acc.internal_ids])

\* one pass of "for (child_pos in 1:2)": a break leaves everything as it is
ChildStep(parent_id, next_labels, label_counts, acc) ==
    IF acc.next_index > Len(next_labels) THEN acc
    ELSE LET node_info == create_node(next_labels[acc.next_index], label_counts, acc.st)
         IN [st |-> [node_info.st EXCEPT !.links = Append(@, Link(parent_id, node_info.id))],
             next_index |-> acc.next_index + 1,
             internal_ids |-> IF node_info.is_internal
                              THEN Append(acc.internal_ids, node_info.id)
                              ELSE acc.internal_ids]

\* a parent loop that gives every parent three children
RECURSIVE ParentLoopThreeChildren(_, _, _, _, _)
ParentLoopThreeChildren(parents, p, next_labels, label_counts, acc) ==
    IF p > Len(parents) THEN acc
    ELSE ParentLoopThreeChildren(parents, p + 1, next_labels, label_counts,
             ChildStep(parents[p], next_labels, label_counts,
                 ChildStep(parents[p], next_labels, label_counts,
                     ChildStep(parents[p], next_labels, label_counts, acc))))

RECURSIVE ParentLoop(_, _, _, _, _)
ParentLoop(parents, p, next_labels, label_counts, acc) ==
    IF p > Len(parents) THEN acc
    ELSE ParentLoop(parents, p + 1, next_labels, label_counts,
                    ChildStep(parents[p], next_labels, label_counts,
                              ChildStep(parents[p], next_labels, label_counts, acc)))

\* "for (level_idx in 2:length(mark_tree_levels))"; reading a level past the
\* end of the list raises "subscript out of bounds"
RECURSIVE LevelLoop(_, _, _, _, _, _)
LevelLoop(levels, idxs, k, label_counts, st, current_internal_ids) ==
    IF k > Len(idxs) THEN st
    ELSE IF idxs[k] > Len(levels) THEN [st EXCEPT !.err = TRUE]
    ELSE LET next_labels == UnlistLabels(levels[idxs[k]])
         IN IF Len(next_labels) = 0 THEN st
            ELSE LET acc == ParentLoop(current_internal_ids, 1, next_labels, label_counts,
                                       [st |-> st, next_index |-> 1, internal_ids |-> <<>>])
                 IN IF Len(acc.internal_ids) = 0 THEN acc.st
                    ELSE LevelLoop(levels, idxs, k + 1, label_counts, acc.st, acc.internal_ids)

EmptyBuild == [nodes |-> <<>>, links |-> <<>>, tree_node_id |-> 0, err |-> FALSE, ret |-> 0]

\* a level-list builder that goes on to the later levels when the first
\* level gave no internal node
LevelsWithoutEarlyReturn(mark_tree_levels, label_counts) ==
    IF Len(mark_tree_levels) = 0 THEN EmptyBuild
    ELSE LET first == FirstLevel(UnlistLabels(mark_tree_levels[1]), 1, label_counts,
                                 [st |-> EmptyBuild, internal_ids |-> <<>>])
         IN LevelLoop(mark_tree_levels, RColon(2, Len(mark_tree_levels)), 1,
                      label_counts, first.st, first.internal_ids)

build_tree_from_mark_tree_levels(mark_tree_levels, label_counts) ==
    IF Len(mark_tree_levels) = 0 THEN EmptyBuild
    ELSE LET first == FirstLevel(UnlistLabels(mark_tree_levels[1]), 1, label_counts,
                                 [st |-> EmptyBuild, internal_ids |-> <<>>])
         IN IF Len(first.internal_ids) = 0 THEN first.st
            ELSE LevelLoop(mark_tree_levels, RColon(2, Len(mark_tree_levels)), 1,
                           label_counts, first.st, first.internal_ids)

(***************************************************************************)
(* The raw tree description tree$mark_tree.                                *)
(*   cls    "NULL", "numeric" (a numeric vector or matrix) or "list"       *)
(*   dim    whether the value carries a dim attribute (is.matrix)          *)
(*   ncol   its number of columns when it does                             *)
(*   rows   the rows of a numeric matrix, or the values of a flat numeric  *)
(*          vector as rows of one value                                    *)
(*   names  the names attribute (null or a vector of strings)              *)
(*   elems  the elements of a list                                         *)
(***************************************************************************)
NoNames == [null |-> TRUE, v |-> <<>>]
Names(v) == [null |-> FALSE, v |-> v]

NullTree ==
    [cls |-> "NULL", dim |-> FALSE, ncol |-> 0, rows |-> <<>>, names |-> NoNames, elems |-> <<>>]

MatrixTree(rows, ncol) ==
    [cls |-> "numeric", dim |-> TRUE, ncol |-> ncol, rows |-> rows, names |-> NoNames,
     elems |-> <<>>]

VectorTree(vals) ==
    [cls |-> "numeric", dim |-> FALSE, ncol |-> 0,
     rows |-> [i \in 1..Len(vals) |-> <<vals[i]>>], names |-> NoNames, elems |-> <<>>]

ListTree(names, elems, dim) ==
    [cls |-> "list", dim |-> dim, ncol |-> IF dim THEN 1 ELSE 0, rows |-> <<>>,
     names |-> names, elems |-> elems]

is_null(mt) == mt.cls = "NULL"
is_matrix(mt) == mt.dim
is_list(mt) == mt.cls = "list"
length(mt) == IF mt.cls = "list" THEN Len(mt.elems)
              ELSE IF mt.dim THEN Len(mt.rows) * mt.ncol ELSE Len(mt.rows)
nrow(mt) == IF mt.cls = "list" THEN Len(mt.elems) ELSE Len(mt.rows)

\* as.matrix of a value without dim: one column; the names become row names
\* and the value has no names attribute any more
as_matrix(mt) == [mt EXCEPT !.dim = TRUE, !.ncol = 1, !.names = NoNames]

\* t(matrix(m, ncol = 5)) of a numeric matrix with one row: matrix() fills 5
\* columns column by column (recycling the values), t() turns them into 5 rows
Reshape5(mt) ==
    LET vals == mt.rows[1]
        m == (Len(vals) + 4) \div 5
    IN [mt EXCEPT !.ncol = m,
                  !.rows = [j \in 1..5 |->
                               [i \in 1..m |-> vals[(((j - 1) * m + i - 1) % Len(vals)) + 1]]]]

\* "Convert mark_tree to matrix if it's not already"
CoerceMarkTree(mt) ==
    IF ~is_null(mt) /\ ~is_matrix(mt) /\ length(mt) > 0
    THEN LET m == as_matrix(mt)
         IN IF nrow(m) = 1 /\ m.ncol > 5 /\ m.cls = "numeric" THEN Reshape5(m) ELSE m
    ELSE mt

(***************************************************************************)
(* Matrix strategy: build_node_with_ids.                                   *)
(***************************************************************************)
\* match(idx, mark_tree_ids): the first row whose id is idx, 0 for NA
match(idx, rows) ==
    LET hits == {i \in 1..Len(rows) : rows[i][1] = idx}
    IN IF hits = {} THEN 0 ELSE CHOOSE i \in hits : \A j \in hits : i <= j

\* R stops a recursion that nests too deeply ("evaluation nested too deeply",
\* "C stack usage is too close to the limit") by raising an error.  A call
\* deeper than the number of rows plus one is a call on an id that is its own
\* ancestor, and its expansion never ends: the error is raised there.
StackLimit == MaxRows + 1

\* "if (r[2] <= length(markers)) markers[r[2]] else paste0("Marker_", r[2])"
MatrixMarkerName(mk, markers) ==
    IF mk <= Len(markers) THEN RIndex(markers, mk).v ELSE <<S_Marker \o IntToStr(mk)>>

\* a leaf that takes the external id as its node id
MatrixLeafOfExternalId(current_id, idx, label_counts) ==
    Node(idx, S_Pop \o IntToStr(idx), <<S_Pop \o IntToStr(idx)>>,
         Val(RIndex(label_counts, idx)), Null)

MatrixLeaf(current_id, idx, label_counts) ==
    Node(current_id, S_Pop \o IntToStr(idx), <<S_Pop \o IntToStr(idx)>>,
         Val(RIndex(label_counts, idx)), Null)

MatrixInternal(current_id, idx, r, markers) ==
    Node(current_id, S_Node \o IntToStr(idx), MatrixMarkerName(r[2], markers),
         Null, Scalar(Round2(r[3])))

\* links that name the right child first
MatrixLinksRightFirst(links, current_id, left_id, right_id) ==
    Append(Append(links, Link(current_id, right_id)), Link(current_id, left_id))

MatrixLinks(links, current_id, left_id, right_id) ==
    Append(Append(links, Link(current_id, left_id)), Link(current_id, right_id))

RECURSIVE build_node_with_ids(_, _, _, _, _, _)
build_node_with_ids(idx, rows, markers, label_counts, st, depth) ==
    IF st.err THEN st
    ELSE IF depth > StackLimit THEN [st EXCEPT !.err = TRUE]
    ELSE LET current_id == st.tree_node_id + 1
             row_idx == match(idx, rows)
         IN IF row_idx = 0
            THEN [st EXCEPT !.tree_node_id = current_id,
                            !.nodes = ListAssign(@, current_id,
                                                 MatrixLeaf(current_id, idx, label_counts)),
                            !.ret = current_id]
            ELSE LET r == rows[row_idx]
                     st1 == [st EXCEPT !.tree_node_id = current_id,
                                       !.nodes = ListAssign(@, current_id,
                                                     MatrixInternal(current_id, idx, r, markers))]
                     stL == build_node_with_ids(r[4], rows, markers, label_counts, st1, depth + 1)
                     stR == build_node_with_ids(r[5], rows, markers, label_counts, stL, depth + 1)
                 IN IF stR.err THEN stR
                    ELSE [stR EXCEPT !.links = MatrixLinks(@, current_id, stL.ret, stR.ret),
                                     !.ret = current_id]

MatrixApplies(mt) == ~is_null(mt) /\ is_matrix(mt) /\ nrow(mt) > 0 /\ mt.ncol >= 5

(***************************************************************************)
(* Keyed strategy: parse_mark_tree_entry and build_mark_tree_list.         *)
(***************************************************************************)
S_marker == <<"m", "a", "r", "k", "e", "r">>
S_variable == <<"v", "a", "r", "i", "a", "b", "l", "e">>
S_cut == <<"c", "u", "t">>
S_threshold == <<"t", "h", "r", "e", "s", "h", "o", "l", "d">>

\* NA_character_: no string of the model has an element of several characters
NAString == <<"NA_character_">>

\* entry$key: the first field of that name, or NULL
Field(entry, key) ==
    LET hits == {i \in 1..Len(entry.keys) : entry.keys[i] = key}
    IN IF hits = {} THEN [null |-> TRUE, val |-> Chr(<<>>)]
       ELSE [null |-> FALSE, val |-> entry.vals[CHOOSE i \in hits : \A j \in hits : i <= j]]

\* truncation of a number in thousandths to the whole number R indexes with
TruncIndex(n) == IF n >= 0 THEN n \div 1000 ELSE 0 - ((0 - n) \div 1000)

\* the value of marker_val before the numeric lookup: NULL or a vector
EntryMarkerVal(entry) ==
    IF entry.isList
    THEN IF ~Field(entry, S_marker).null THEN [null |-> FALSE, vals |-> <<Field(entry, S_marker).val>>]
         ELSE IF ~Field(entry, S_variable).null
              THEN [null |-> FALSE, vals |-> <<Field(entry, S_variable).val>>]
         ELSE IF Len(entry.vals) > 0 THEN [null |-> FALSE, vals |-> <<entry.vals[1]>>]
         ELSE [null |-> TRUE, vals |-> <<>>]
    ELSE [null |-> FALSE, vals |-> entry.vals]

EntryThresholdVal(entry) ==
    IF entry.isList
    THEN IF ~Field(entry, S_cut).null THEN Field(entry, S_cut)
         ELSE Field(entry, S_threshold)
    ELSE [null |-> TRUE, val |-> Chr(<<>>)]

\* parse_mark_tree_entry: marker is NULL, NA or a string; threshold is NULL,
\* NA (a string that is no number) or a number rounded to 2 decimals
parse_mark_tree_entry(entry, markers) ==
    LET mv == EntryMarkerVal(entry)
        looked_up == /\ ~mv.null
                     /\ Len(mv.vals) = 1
                     /\ mv.vals[1].num
                     /\ mv.vals[1].n <= Len(markers) * 1000
        chr == IF mv.null THEN <<>>
               ELSE IF looked_up THEN RIndex(markers, TruncIndex(mv.vals[1].n)).v
               ELSE [i \in 1..Len(mv.vals) |-> AsCharacter(mv.vals[i])]
        tv == EntryThresholdVal(entry)
    IN [marker |-> IF mv.null THEN [null |-> TRUE, na |-> FALSE, s |-> <<>>]
                   ELSE IF chr = <<>> THEN [null |-> FALSE, na |-> TRUE, s |-> <<>>]
                   ELSE [null |-> FALSE, na |-> FALSE, s |-> chr[1]],
        threshold |-> IF tv.null THEN Null
                      ELSE IF tv.val.num THEN Scalar(Round2(tv.val.n))
                      ELSE NAValue]

\* paste0(marker, suffix), where an NA marker pastes as "NA"
PasteMarker(m, suffix) == (IF m.na THEN S_NA ELSE m.s) \o suffix

\* candidates[candidates %in% mark_tree_names][1]: the name, or NA
FirstPresent(candidates, names) ==
    LET hits == {i \in 1..Len(candidates) : candidates[i] \in SeqToSet(names)}
    IN IF hits = {} THEN [na |-> TRUE, s |-> <<>>]
       ELSE [na |-> FALSE, s |-> candidates[CHOOSE i \in hits : \A j \in hits : i <= j]]

\* mark_tree[[node_name]]: the first element of that name
ElementNamed(mt, node_name) ==
    mt.elems[CHOOSE i \in 1..Len(mt.names.v) :
                 /\ mt.names.v[i] = node_name
                 /\ \A j \in 1..(i - 1) : mt.names.v[j] # node_name]

KeyedNode(current_id, node_name, parsed) ==
    Node(current_id, node_name,
         IF parsed.marker.null THEN <<S_root>>
         ELSE IF parsed.marker.na THEN <<NAString>>
         ELSE <<parsed.marker.s>>,
         Null, parsed.threshold)

\* "if (!is.null(parent_id)) tree_links[[length(tree_links) + 1]] <<- ..."
KeyedLink(links, parent, current_id) ==
    IF ~parent.null THEN Append(links, Link(parent.id, current_id)) ELSE links

NoParent == [null |-> TRUE, id |-> 0]
Parent(id) == [null |-> FALSE, id |-> id]

\* a revisit that links the parent to the node once more
RevisitRelinked(st, node_name, parent) ==
    [st EXCEPT !.links = KeyedLink(@, parent, st.node_name_to_id[node_name]),
               !.ret = st.node_name_to_id[node_name]]

\* "if (!is.null(visited[[node_name]])) return(node_name_to_id[[node_name]])"
Revisit(st, node_name, parent) == [st EXCEPT !.ret = st.node_name_to_id[node_name]]

RECURSIVE build_mark_tree_list(_, _, _, _, _)
build_mark_tree_list(node_name, parent, mt, markers, st) ==
    IF node_name \in DOMAIN st.node_name_to_id
    THEN Revisit(st, node_name, parent)
    ELSE LET current_id == st.tree_node_id + 1
             parsed == parse_mark_tree_entry(ElementNamed(mt, node_name), markers)
             st1 == [st EXCEPT !.tree_node_id = current_id,
                               !.node_name_to_id = (node_name :> current_id) @@ @,
                               !.nodes = ListAssign(@, current_id,
                                                    KeyedNode(current_id, node_name, parsed)),
                               !.links = KeyedLink(@, parent, current_id)]
         IN IF parsed.marker.null THEN [st1 EXCEPT !.ret = current_id]
            ELSE LET left_name == FirstPresent(<<PasteMarker(parsed.marker, <<".", "0">>),
                                                 node_name \o <<".", "0">>>>, mt.names.v)
                     right_name == FirstPresent(<<PasteMarker(parsed.marker, <<".", "1">>),
                                                  node_name \o <<".", "1">>>>, mt.names.v)
                     stL == IF ~left_name.na
                            THEN build_mark_tree_list(left_name.s, Parent(current_id), mt,
                                                      markers, st1)
                            ELSE st1
                     stR == IF ~right_name.na
                            THEN build_mark_tree_list(right_name.s, Parent(current_id), mt,
                                                      markers, stL)
                            ELSE stL
                 IN [stR EXCEPT !.ret = current_id]

\* "root" when it is a name of the structure, else the first name
root_name(mt) == IF S_root \in SeqToSet(mt.names.v) THEN S_root ELSE mt.names.v[1]

EmptyKeyedBuild ==
    [nodes |-> <<>>, links |-> <<>>, tree_node_id |-> 0, err |-> FALSE, ret |-> 0,
     node_name_to_id |-> <<>>]

(***************************************************************************)
(* Annotation: annot$combinations is a table with one column per marker,   *)
(* holding the call 1, 0 or NA, and the columns labels, count and prop.    *)
(* A call is a sequence: <<>> for NA, else its one value.                  *)
(***************************************************************************)
NACall == <<>>
Call(v) == <<v>>

AnnotRow(labels, calls, count, prop) ==
    [labels |-> labels, calls |-> calls, count |-> count, prop |-> prop]

\* intersect(x, y): the distinct elements of x that are in y, in x's order
RECURSIVE intersect(_, _)
intersect(x, y) ==
    IF x = <<>> THEN <<>>
    ELSE LET rest == intersect(SubSeq(x, 1, Len(x) - 1), y)
             last == x[Len(x)]
         IN IF last \in SeqToSet(y) /\ last \notin SeqToSet(rest) THEN Append(rest, last)
            ELSE rest

\* row_data[[m]]: the call in the first column named m
CallOf(row, cols, m) ==
    row.calls[CHOOSE i \in 1..Len(cols) : cols[i] = m /\ \A j \in 1..(i - 1) : cols[j] # m]

\* paste(parts, collapse = sep)
RECURSIVE paste_collapse(_, _)
paste_collapse(parts, sep) ==
    IF parts = <<>> THEN <<>>
    ELSE IF Len(parts) = 1 THEN parts[1]
    ELSE paste_collapse(SubSeq(parts, 1, Len(parts) - 1), sep) \o sep \o parts[Len(parts)]

\* the tokens of one annotation row: pos for a call of 1, neg for a call of 0
RECURSIVE phenotype_parts(_, _, _, _, _)
phenotype_parts(row, cols, markers_subset, pos, neg) ==
    IF markers_subset = <<>> THEN <<>>
    ELSE LET m == markers_subset[Len(markers_subset)]
             before == phenotype_parts(row, cols, SubSeq(markers_subset, 1, Len(markers_subset) - 1),
                                       pos, neg)
             c == CallOf(row, cols, m)
         IN IF c = Call(1) THEN Append(before, m \o pos)
            ELSE IF c = Call(0) THEN Append(before, m \o neg)
            ELSE before

build_phenotype_str(row, cols, markers_subset) ==
    paste_collapse(phenotype_parts(row, cols, markers_subset, <<"+">>, <<"-">>), <<" ">>)

\* a key and label builder that writes the label with the tokens m+ and m-
KeyAndLabelWithSigns(row, cols, markers_subset) ==
    [key |-> paste_collapse(phenotype_parts(row, cols, markers_subset, <<"=", "1">>, <<"=", "0">>),
                            <<",">>),
     label |-> paste_collapse(phenotype_parts(row, cols, markers_subset, <<"+">>, <<"-">>),
                              <<" ">>)]

build_phenotype_key_and_label(row, cols, markers_subset) ==
    LET parts == phenotype_parts(row, cols, markers_subset, <<"=", "1">>, <<"=", "0">>)
    IN [key |-> paste_collapse(parts, <<",">>), label |-> paste_collapse(parts, <<" ">>)]

\* sort(unique(labels))
RECURSIVE SortSet(_)
SortSet(S) ==
    IF S = {} THEN <<>>
    ELSE LET lo == CHOOSE m \in S : \A z \in S : m <= z
         IN <<lo>> \o SortSet(S \ {lo})

\* a row lookup that takes every row of the table
AnnotRowsOfAnyPopulation(annot, pop_id) == [i \in 1..Len(annot.rows) |-> i]

\* which(annot_combinations$labels == pop_id)
AnnotRowsOf(annot, pop_id) ==
    SortSet({i \in 1..Len(annot.rows) : annot.rows[i].labels = pop_id})

\* a population node that takes the phenotype string of the row as it is,
\* empty or not
PopulationNodeOfRowString(node_id, pop_id, annot, markers_in_use, label_counts) ==
    LET annot_row == AnnotRowsOf(annot, pop_id)
        phenotype_str == IF Len(annot_row) > 0
                         THEN build_phenotype_str(annot.rows[annot_row[1]], annot.cols, markers_in_use)
                         ELSE S_Pop \o IntToStr(pop_id)
    IN Node(node_id, phenotype_str, <<phenotype_str>>, Val(RIndex(label_counts, pop_id)), Null)

\* a population node built from the last row of the population
PopulationNodeOfLastRow(node_id, pop_id, annot, markers_in_use, label_counts) ==
    LET annot_row == AnnotRowsOf(annot, pop_id)
        from_annot == IF Len(annot_row) > 0
                      THEN build_phenotype_str(annot.rows[annot_row[Len(annot_row)]], annot.cols,
                                               markers_in_use)
                      ELSE <<>>
        phenotype_str == IF Len(from_annot) > 0 THEN from_annot ELSE S_Pop \o IntToStr(pop_id)
    IN Node(node_id, phenotype_str, <<phenotype_str>>, Val(RIndex(label_counts, pop_id)), Null)

\* the node made for one population in "Create a node for each unique population"
PopulationNode(node_id, pop_id, annot, markers_in_use, label_counts) ==
    LET annot_row == AnnotRowsOf(annot, pop_id)
        from_annot == IF Len(annot_row) > 0
                      THEN build_phenotype_str(annot.rows[annot_row[1]], annot.cols, markers_in_use)
                      ELSE <<>>
        phenotype_str == IF Len(from_annot) > 0 THEN from_annot ELSE S_Pop \o IntToStr(pop_id)
    IN Node(node_id, phenotype_str, <<phenotype_str>>, Val(RIndex(label_counts, pop_id)), Null)

PopulationNodes(labels, annot, markers_in_use, label_counts) ==
    LET pops == SortSet(SeqToSet(labels))
    IN [k \in 1..Len(pops) |-> PopulationNode(k, pops[k], annot, markers_in_use, label_counts)]

\* the loop "for (i in 1:nrow(annot_combinations))" building phenotypes_list
RECURSIVE PhenotypesList(_, _, _, _)
PhenotypesList(annot, markers_in_use, idxs, k) ==
    IF k = 0 THEN <<>>
    ELSE LET before == PhenotypesList(annot, markers_in_use, idxs, k - 1)
             row == annot.rows[idxs[k]]
             info == build_phenotype_key_and_label(row, annot.cols, markers_in_use)
         IN IF Len(info.key) > 0
            THEN Append(before, [key |-> info.key, label |-> info.label,
                                 population |-> row.labels, count |-> row.count,
                                 proportion |-> row.prop])
            ELSE before

(***************************************************************************)
(* extract_marker_metadata: the description of an FCS file is a list of    *)
(* named values, held as a sequence of [name, value]; marker_map is a list *)
(* of named entries, held as a sequence of [name, technical, biological].  *)
(***************************************************************************)
Keyword(name, value) == [name |-> name, value |-> value]

\* grepl("^\\$P[0-9]+N$", name)
is_param_key(name) ==
    /\ Len(name) >= 4
    /\ name[1] = "$"
    /\ name[2] = "P"
    /\ name[Len(name)] = "N"
    /\ \A i \in 3..(Len(name) - 1) : IsDigit(name[i])

\* gsub("^\\$P([0-9]+)N$", "\\1", param_key)
param_num(param_key) == SubSeq(param_key, 3, Len(param_key) - 1)

\* paste0("$P", param_num, "S")
marker_key(num) == <<"$", "P">> \o num \o <<"S">>

\* fcs_description[[key]]: the value of the first element of that name, or NULL
DescriptionValue(fcs_description, key) ==
    LET hits == {i \in 1..Len(fcs_description) : fcs_description[i].name = key}
    IN IF hits = {} THEN [null |-> TRUE, v |-> <<>>]
       ELSE [null |-> FALSE, v |-> fcs_description[CHOOSE i \in hits : \A j \in hits : i <= j].value]

\* a marker name that takes the biological name whenever the key is present
MarkerNameOfAnyValue(biological_marker, detector_name) ==
    IF ~biological_marker.null THEN biological_marker.v ELSE detector_name

\* the biological marker if available, otherwise the detector name
MarkerName(biological_marker, detector_name) ==
    IF ~biological_marker.null /\ Len(biological_marker.v) > 0
    THEN biological_marker.v
    ELSE detector_name

\* marker_map[[name]] <- entry: replaces the element of that name, or appends
MapAssign(marker_map, entry) ==
    LET hits == {i \in 1..Len(marker_map) : marker_map[i].name = entry.name}
    IN IF hits = {} THEN Append(marker_map, entry)
       ELSE [marker_map EXCEPT ![CHOOSE i \in hits : \A j \in hits : i <= j] = entry]

\* the loop over param_keys, the names that are parameter name keys
RECURSIVE MetadataLoop(_, _, _)
MetadataLoop(fcs_description, param_keys, marker_map) ==
    IF param_keys = <<>> THEN marker_map
    ELSE LET param_key == Head(param_keys)
             detector_name == DescriptionValue(fcs_description, param_key)
             biological_marker == DescriptionValue(fcs_description, marker_key(param_num(param_key)))
         IN MetadataLoop(fcs_description, Tail(param_keys),
                IF detector_name.null THEN marker_map
                ELSE MapAssign(marker_map,
                               [name |-> detector_name.v,
                                technical |-> detector_name.v,
                                biological |-> MarkerName(biological_marker, detector_name.v)]))

extract_marker_metadata(fcs_description) ==
    LET names == [i \in 1..Len(fcs_description) |-> fcs_description[i].name]
    IN MetadataLoop(fcs_description, SelectSeq(names, is_param_key), <<>>)

(***************************************************************************)
(* Inputs of the handler: the request body and what the external routines  *)
(* (IFC::readFCS, CytomeTree, Annotation) return.                          *)
(***************************************************************************)
\* body$files: NULL, or a list of files whose content is NULL, "" or data
FileContents == {"NULL", "", "fcs"}

RECURSIVE SeqsUpTo(_, _)
SeqsUpTo(S, n) ==
    IF n = 0 THEN {<<>>}
    ELSE LET shorter == SeqsUpTo(S, n - 1)
         IN shorter \cup {Append(q, e) : q \in {r \in shorter : Len(r) = n - 1}, e \in S}

FilesData ==
    {[null |-> TRUE, files |-> <<>>]}
    \cup {[null |-> FALSE, files |-> f] : f \in SeqsUpTo(FileContents, MaxFiles)}

\* colnames of the matrices read from the files
Panel == <<S_CD3, S_CD4>>

\* fcs[[1]]$description of the first file of a run of the handler
PanelDescription ==
    <<Keyword(<<"$", "P", "1", "N">>, S_CD3), Keyword(<<"$", "P", "1", "S">>, <<>>),
      Keyword(<<"$", "P", "2", "N">>, S_CD4), Keyword(<<"$", "P", "2", "S">>, S_CD8)>>

\* descriptions of up to MaxKeywords keywords: parameter names (never empty),
\* biological names (empty or not) and a keyword that is neither
S_FL1 == <<"F", "L", "1">>

Keywords ==
    {Keyword(<<"$", "P">> \o n \o <<"N">>, v) : n \in {<<"1">>, <<"2">>, <<"1", "2">>}, v \in {S_FL1, S_CD3}}
    \cup {Keyword(marker_key(n), v) : n \in {<<"1">>, <<"2">>}, v \in {<<>>, S_CD3, S_CD8}}
    \cup {Keyword(<<"$", "P", "A", "R">>, <<"2">>)}

Descriptions == SeqsUpTo(Keywords, MaxKeywords)

\* body$markers: NULL, an empty list, or names
RequestedMarkers ==
    {[null |-> TRUE, v |-> <<>>], [null |-> FALSE, v |-> <<>>], [null |-> FALSE, v |-> <<S_CD3>>],
     [null |-> FALSE, v |-> <<S_FSC>>], [null |-> FALSE, v |-> <<S_CD4, S_FSC, S_CD3>>]}

\* tree$labels: population p has 2p+1 cells (3, 5, 7, ...), or the two
\* populations have 3 and 9 cells
RECURSIVE Repeat(_, _)
Repeat(v, n) == IF n = 0 THEN <<>> ELSE Append(Repeat(v, n - 1), v)

RECURSIVE LabelsOfCounts(_)
LabelsOfCounts(counts) ==
    IF counts = <<>> THEN <<>>
    ELSE LabelsOfCounts(SubSeq(counts, 1, Len(counts) - 1))
         \o Repeat(Len(counts), counts[Len(counts)])

OddCounts == [p \in 1..(2 * MaxRows + 1) |-> 2 * p + 1]
LabelsOdd == LabelsOfCounts(OddCounts)
Labels39 == LabelsOfCounts(<<3, 9>>)

S_1 == <<"1">>
S_2 == <<"2">>
S_CD4_1 == S_CD4 \o <<".", "1">>
S_CD3_0 == S_CD3 \o <<".", "0">>
S_CD3_1 == S_CD3 \o <<".", "1">>
S_root_1 == S_root \o <<".", "1">>

\* tree$mark_tree as a table of split records [id, marker index, threshold,
\* left child id, right child id]
Thresholds == {500, 1234}
MarkerIndexes == (0 - 1)..(Len(Panel) + 1)
ChildIds == (0 - 1)..(2 * MaxRows + 2)

\* the threshold of the row of id j in the tables of several rows
RowThreshold(j) == 234 * j + 266

\* one row for id 1, with every marker index and every pair of children
OneRowTables ==
    {MatrixTree(<<<<1, mk, thr, l, r>>>>, 5) :
        mk \in MarkerIndexes, thr \in Thresholds, l \in ChildIds, r \in ChildIds}

\* rows for the ids 1..k; a child of row j is the root, the next id or one
\* of two ids that have no row, and the two children of a row differ
StructChildIds(j) == {1, j + 1, MaxRows + j, MaxRows + j + 1}

RECURSIVE StructTables(_)
StructTables(k) ==
    IF k = 0 THEN {<<>>}
    ELSE {Append(t, <<k, k, RowThreshold(k), c[1], c[2]>>) :
             t \in StructTables(k - 1),
             c \in {p \in StructChildIds(k) \X StructChildIds(k) : p[1] # p[2]}}

ManyRowTables == {MatrixTree(t, 5) : t \in UNION {StructTables(k) : k \in 2..MaxRows}}

\* tables and vectors of other shapes: no row for id 1, two rows of one id,
\* six columns, four columns, no row, and flat numeric vectors
OtherNumeric ==
    {MatrixTree(<<<<2, 1, 500, 3, 4>>>>, 5),
     MatrixTree(<<<<1, 1, 500, 2, 3>>, <<1, 2, 1234, 3, 2>>>>, 5),
     MatrixTree(<<<<1, 1, 500, 2, 3, 9>>>>, 6),
     MatrixTree(<<<<1, 1, 500, 2>>>>, 4),
     MatrixTree(<<>>, 5),
     VectorTree(<<1, 1, 500, 2, 3>>),
     VectorTree(<<1, 1, 500, 2, 3, 2, 2, 1234, 4, 5>>),
     VectorTree(<<1, 1, 500, 2, 3, 2, 2>>)}

MatrixTrees == OneRowTables \cup ManyRowTables \cup OtherNumeric

\* tree$mark_tree as a list of levels, each a character vector of labels
Level(labels) == VecEntry([i \in 1..Len(labels) |-> Chr(labels[i])])

LeafRun == [i \in 1..4 |-> IntToStr(i)]

LevelChoices(k) ==
    IF k = 1 THEN SeqsUpTo({S_CD3, S_1}, 2)
    ELSE IF k = 2 THEN SeqsUpTo({S_CD4_1, S_2}, 3)
    ELSE IF k = 3 THEN {SubSeq(LeafRun, 1, n) : n \in 0..Len(LeafRun)}
    ELSE {SubSeq(LeafRun, 1, n) : n \in 0..2}

RECURSIVE LevelLists(_)
LevelLists(n) ==
    IF n = 0 THEN {<<>>}
    ELSE {Append(ls, Level(lv)) : ls \in LevelLists(n - 1), lv \in LevelChoices(n)}

\* levels with labels of populations that have no cells, and an empty list
OtherLevelLists ==
    {<<Level(<<S_CD3>>), Level(<<<<"0">>, <<"9">>>>)>>,
     <<Level(<<S_CD3>>), Level(<<<<"0", "0", "2">>, <<"2">>>>)>>,
     <<>>}

LevelTrees ==
    {ListTree(NoNames, ls, FALSE) :
        ls \in UNION {LevelLists(n) : n \in 1..MaxLevels} \cup OtherLevelLists}

\* tree$mark_tree as a list of named node descriptors; with or without a
\* dim attribute
KeyNames == <<S_root, S_CD3_0, S_CD3_1, S_root_1>>

Descriptors ==
    {ListEntry(<<>>, <<>>),
     ListEntry(<<S_marker, S_cut>>, <<Chr(S_CD3), Num(500)>>),
     ListEntry(<<S_variable, S_threshold>>, <<Num(2000), Num(1234)>>),
     ListEntry(<<S_cut>>, <<Num(734)>>),
     VecEntry(<<Chr(S_1), Chr(S_2)>>)}

MaxKeys == 3

RECURSIVE KeyedLists(_)
\* the lists whose names are a choice of the first k names, in their order
KeyedLists(k) ==
    IF k = 0 THEN {[names |-> <<>>, elems |-> <<>>]}
    ELSE LET shorter == KeyedLists(k - 1)
         IN shorter \cup
            {[names |-> Append(kl.names, KeyNames[k]), elems |-> Append(kl.elems, d)] :
                kl \in shorter, d \in Descriptors}

KeyedTrees ==
    {ListTree(Names(kl.names), kl.elems, dim) :
        kl \in {q \in KeyedLists(Len(KeyNames)) : Len(q.names) \in 1..MaxKeys},
        dim \in BOOLEAN}

RawTrees == {NullTree} \cup MatrixTrees \cup LevelTrees \cup KeyedTrees

\* what CytomeTree returns: the labels of the cells and the tree description
Clusterings ==
    {[labels |-> LabelsOdd, mark_tree |-> mt] : mt \in RawTrees}
    \cup {[labels |-> Labels39, mark_tree |-> ListTree(NoNames, ls, FALSE)] :
             ls \in LevelLists(2) \cup {<<Level(<<S_CD3>>), Level(<<S_1, S_2>>)>>}}
    \cup {[labels |-> lb, mark_tree |-> NullTree] :
             lb \in {Labels39, <<2, 2, 4, 4>>, <<1>>}}

\* what Annotation returns: one column per marker and rows of calls
CallVectors(n) == {cv \in SeqsUpTo({NACall, Call(0), Call(1), Call(2)}, n) : Len(cv) = n}

PerMille(count, total) == (count * 1000) \div total

CountOf(labels, p) == Cardinality({i \in 1..Len(labels) : labels[i] = p})

\* a row per population, whose calls alternate with the population id
DefaultAnnotation(cols, labels) ==
    LET pops == SortSet(SeqToSet(labels))
    IN [cols |-> cols,
        rows |-> [k \in 1..Len(pops) |->
                    AnnotRow(pops[k], [i \in 1..Len(cols) |-> Call((pops[k] + i) % 2)],
                             CountOf(labels, pops[k]),
                             PerMille(CountOf(labels, pops[k]), Len(labels)))]]

\* one or two rows for the populations 1 and 2, with any calls
AnnotationRows(cols, labels) ==
    {AnnotRow(p, cv, CountOf(labels, p), PerMille(CountOf(labels, p), Len(labels))) :
        p \in 1..2, cv \in CallVectors(Len(cols))}

Annotations(cols, labels, mt) ==
    IF is_null(mt)
    THEN {[cols |-> cols, rows |-> rs] :
             rs \in SeqsUpTo(AnnotationRows(cols, labels), 2) \ {<<>>}}
    ELSE {DefaultAnnotation(cols, labels)}

(***************************************************************************)
(* State of one run of the /analyze handler.                               *)
(*   pc               the place the handler has reached                    *)
(*   file_count       the number of files whose content was read           *)
(*   markers          the columns in use after the marker filter           *)
(*   labels           tree$labels                                          *)
(*   raw_tree         tree$mark_tree as the routine returned it            *)
(*   mark_tree        the handler's variable mark_tree                     *)
(*   label_counts     tabulate(tree$labels)                                *)
(*   tree_nodes,                                                           *)
(*   tree_links,                                                           *)
(*   tree_node_id     the gating tree under construction                   *)
(*   annot            annot$combinations                                   *)
(*   nodes            the population nodes                                 *)
(*   condition        the message of the R error raised, "" for none       *)
(*   result           the value the handler returns                        *)
(*   fcs_metadata     the marker metadata of the first file, or NULL       *)
(* and of one call of a function of the program on its own:                *)
(*   args             the function called and its arguments                *)
(*   returned         the value it returned                                *)
(***************************************************************************)
VARIABLES pc, file_count, markers, labels, raw_tree, mark_tree, label_counts,
          tree_nodes, tree_links, tree_node_id, annot, nodes, condition, result,
          fcs_metadata, args, returned

(***************************************************************************)
(* The state of the page (frontend/src/App.tsx, GatingOverview.tsx):       *)
(*   app               the values of the useState hooks of App             *)
(*   progressTimerRef  whether the interval of the progress bar is running *)
(*   run               the position of the invocation of handleAnalyze     *)
(*   worker            the requests to the AI worker that are in flight    *)
(*   overview          the mounted GatingOverview and its useState value   *)
(*   toggled           the populations toggled an odd number of times      *)
(*   started           how many times each operation of the user began     *)
(***************************************************************************)
VARIABLES app, progressTimerRef, run, worker, overview, toggled, started

frontend == <<app, progressTimerRef, run, worker, overview, toggled, started>>

vars == <<pc, file_count, markers, labels, raw_tree, mark_tree, label_counts,
          tree_nodes, tree_links, tree_node_id, annot, nodes, condition, result,
          fcs_metadata, args, returned, app, progressTimerRef, run, worker,
          overview, toggled, started>>

\* the number of invocations of handleAnalyze, of files of a selection, of
\* clicks on Regenerate, of clicks on a leaf and of clicks on the legend
MaxAnalyses == 2
MaxSelected == 2
MaxRegenerate == 1
MaxLeafClicks == 2
MaxToggles == 2

\* the population ids that an analysis result can hold
PopulationIds == 1..3

\* null, for treeData, aiInsight and granularInsight
NoData == [null |-> TRUE, version |-> 0, populations |-> {}]
NoInsight == [null |-> TRUE, version |-> 0]
NoGranular == [null |-> TRUE, node |-> 0, error |-> ""]
NoNode == 0

\* App.tsx lines 70-99: the initial values of the hooks; error and aiError
\* are "" for null
AppInitial ==
    [treeData |-> NoData, analyzing |-> FALSE, error |-> "", selectedFiles |-> 0,
     progress |-> 0, aiModels |-> <<>>, aiModel |-> "", aiInsight |-> NoInsight,
     aiLoading |-> FALSE, aiError |-> "", granularInsight |-> NoGranular,
     granularLoading |-> FALSE, selectedNodeId |-> NoNode, showGranularModal |-> FALSE]

NoRun == [at |-> "idle", read |-> 0, files |-> 0, aiModels |-> <<>>, aiModel |-> ""]

FrontendInitial ==
    /\ app = AppInitial
    /\ progressTimerRef = FALSE
    /\ run = NoRun
    /\ worker = [models |-> TRUE,
                 insights |-> [v \in 0..MaxAnalyses |-> 0],
                 granular |-> [n \in PopulationIds |-> 0]]
    /\ overview = [mounted |-> FALSE, visiblePopulations |-> {}]
    /\ toggled = {}
    /\ started = [analyses |-> 0, regenerate |-> 0, clicks |-> 0, toggles |-> 0]

NoCall == [fn |-> "none"]
NoMetadata == [null |-> TRUE, map |-> <<>>]

NoAnnotation == [cols |-> <<>>, rows |-> <<>>]

NoResult ==
    [fields |-> {}, error |-> "", nodes |-> <<>>, links |-> <<>>, treeNodes |-> <<>>,
     treeLinks |-> <<>>, populations |-> 0, cells |-> 0, markers |-> <<>>,
     markerMappings |-> <<>>, phenotypes |-> <<>>]

Init ==
    /\ pc = "load"
    /\ file_count = 0
    /\ markers = <<>>
    /\ labels = <<>>
    /\ raw_tree = NullTree
    /\ mark_tree = NullTree
    /\ label_counts = <<>>
    /\ tree_nodes = <<>>
    /\ tree_links = <<>>
    /\ tree_node_id = 0
    /\ annot = NoAnnotation
    /\ nodes = <<>>
    /\ condition = ""
    /\ result = NoResult
    /\ fcs_metadata = NoMetadata
    /\ args = NoCall
    /\ returned = NoCall
    /\ FrontendInitial

\* stop(message), or an error raised by R itself: control goes to the
\* error handler of tryCatch
Raise(message) == pc' = "error" /\ condition' = message

\* the number of files that pass "!is.null(file_content) && nchar(file_content) > 0"
CountValid(files) == Cardinality({i \in 1..Len(files) : files[i] \notin {"NULL", ""}})

\* lines 218-221: the metadata is taken from the first file, when it has content
FirstFileMetadata(files) ==
    IF files[1] \notin {"NULL", ""}
    THEN [null |-> FALSE, map |-> extract_marker_metadata(PanelDescription)]
    ELSE NoMetadata

\* lines 179-230: read the files of the request
LoadFiles ==
    /\ pc = "load"
    /\ \E files_data \in FilesData :
          IF files_data.null \/ Len(files_data.files) = 0
          THEN Raise("No files provided") /\ UNCHANGED <<file_count, fcs_metadata>>
          ELSE /\ file_count' = CountValid(files_data.files)
               /\ fcs_metadata' = FirstFileMetadata(files_data.files)
               /\ IF file_count' = 0
                  THEN Raise("No valid file data found")
                  ELSE pc' = "select" /\ UNCHANGED condition
    /\ UNCHANGED <<markers, labels, raw_tree, mark_tree, label_counts, tree_nodes,
                   tree_links, tree_node_id, annot, nodes, result, args, returned>>
    /\ UNCHANGED frontend

\* all_markers[which(all_markers %in% requested_markers)]
MatchingColumns(all_markers, requested) ==
    LET idx == SortSet({i \in 1..Len(all_markers) : all_markers[i] \in SeqToSet(requested)})
    IN [k \in 1..Len(idx) |-> all_markers[idx[k]]]

\* a filter that uses the matching columns even when there is none
FilterMarkersClosed(all_markers, requested_markers) ==
    IF ~requested_markers.null /\ Len(requested_markers.v) > 0
    THEN MatchingColumns(all_markers, requested_markers.v)
    ELSE all_markers

FilterMarkers(all_markers, requested_markers) ==
    IF ~requested_markers.null /\ Len(requested_markers.v) > 0
    THEN IF Len(MatchingColumns(all_markers, requested_markers.v)) > 0
         THEN MatchingColumns(all_markers, requested_markers.v)
         ELSE all_markers
    ELSE all_markers

\* lines 237-257: the marker filter
SelectMarkers ==
    /\ pc = "select"
    /\ \E requested_markers \in RequestedMarkers :
          markers' = FilterMarkers(Panel, requested_markers)
    /\ pc' = "cluster"
    /\ UNCHANGED <<file_count, labels, raw_tree, mark_tree, label_counts, tree_nodes,
                   tree_links, tree_node_id, annot, nodes, condition, result>>
    /\ UNCHANGED <<fcs_metadata, args, returned>>
    /\ UNCHANGED frontend

\* lines 262-274: the call of CytomeTree and the label counts
RunCytomeTree ==
    /\ pc = "cluster"
    /\ \E tree \in Clusterings :
          /\ labels' = tree.labels
          /\ raw_tree' = tree.mark_tree
          /\ mark_tree' = tree.mark_tree
          /\ label_counts' = tabulate(tree.labels)
    /\ tree_nodes' = <<>>
    /\ tree_links' = <<>>
    /\ tree_node_id' = 0
    /\ pc' = "matrix"
    /\ UNCHANGED <<file_count, markers, annot, nodes, condition, result>>
    /\ UNCHANGED <<fcs_metadata, args, returned>>
    /\ UNCHANGED frontend

\* what the matrix strategy leaves in tree_nodes, tree_links, tree_node_id
MatrixBuild(mt, mks, counts) ==
    build_node_with_ids(1, mt.rows, mks, counts, EmptyBuild, 1)

\* lines 276-330: the coercion of mark_tree and the matrix strategy
MatrixStrategy ==
    /\ pc = "matrix"
    /\ mark_tree' = CoerceMarkTree(mark_tree)
    /\ IF MatrixApplies(mark_tree')
       THEN LET b == MatrixBuild(mark_tree', markers, label_counts)
            IN IF b.err
               THEN /\ Raise("evaluation nested too deeply: infinite recursion")
                    /\ UNCHANGED <<tree_nodes, tree_links, tree_node_id>>
               ELSE /\ tree_nodes' = b.nodes
                    /\ tree_links' = b.links
                    /\ tree_node_id' = b.tree_node_id
                    /\ pc' = "keyed"
                    /\ UNCHANGED condition
       ELSE /\ pc' = "keyed"
            /\ UNCHANGED <<tree_nodes, tree_links, tree_node_id, condition>>
    /\ UNCHANGED <<file_count, markers, labels, raw_tree, label_counts, annot, nodes, result>>
    /\ UNCHANGED <<fcs_metadata, args, returned>>
    /\ UNCHANGED frontend

KeyedApplies(mt, tnodes) ==
    /\ Len(tnodes) = 0
    /\ is_list(mt)
    /\ length(mt) > 0
    /\ ~mt.names.null
    /\ Len(mt.names.v) > 0

KeyedBuild(mt, mks, node_id) ==
    build_mark_tree_list(root_name(mt), NoParent, mt, mks,
                         [EmptyKeyedBuild EXCEPT !.tree_node_id = node_id])

\* lines 332-408: the keyed strategy
KeyedStrategy ==
    /\ pc = "keyed"
    /\ IF KeyedApplies(mark_tree, tree_nodes)
       THEN LET b == KeyedBuild(mark_tree, markers, tree_node_id)
            IN /\ tree_nodes' = b.nodes
               /\ tree_links' = b.links
               /\ tree_node_id' = b.tree_node_id
       ELSE UNCHANGED <<tree_nodes, tree_links, tree_node_id>>
    /\ pc' = "levels"
    /\ UNCHANGED <<file_count, markers, labels, raw_tree, mark_tree, label_counts, annot,
                   nodes, condition, result>>
    /\ UNCHANGED <<fcs_metadata, args, returned>>
    /\ UNCHANGED frontend

LevelsApplies(mt, tnodes) == Len(tnodes) <= 1 /\ is_list(mt) /\ length(mt) > 0

\* a fallback that keeps the earlier nodes and takes the links of the levels
FallbackNodesKept(tnodes, tree_from_levels) == tnodes

\* a fallback that appends the nodes of the levels to the earlier nodes
FallbackNodesMerged(tnodes, tree_from_levels) ==
    IF Len(tree_from_levels.nodes) > Len(tnodes) THEN tnodes \o tree_from_levels.nodes
    ELSE tnodes

\* lines 413-416: the level-list result replaces the tree when it has more nodes
FallbackNodes(tnodes, tree_from_levels) ==
    IF Len(tree_from_levels.nodes) > Len(tnodes) THEN tree_from_levels.nodes ELSE tnodes

FallbackLinks(tnodes, tlinks, tree_from_levels) ==
    IF Len(tree_from_levels.nodes) > Len(tnodes) THEN tree_from_levels.links ELSE tlinks

\* lines 410-417: the level-list fallback
LevelListFallback ==
    /\ pc = "levels"
    /\ IF LevelsApplies(mark_tree, tree_nodes)
       THEN LET tree_from_levels == build_tree_from_mark_tree_levels(mark_tree.elems, label_counts)
            IN IF tree_from_levels.err
               THEN /\ Raise("subscript out of bounds")
                    /\ UNCHANGED <<tree_nodes, tree_links>>
               ELSE /\ tree_nodes' = FallbackNodes(tree_nodes, tree_from_levels)
                    /\ tree_links' = FallbackLinks(tree_nodes, tree_links, tree_from_levels)
                    /\ pc' = "annotate"
                    /\ UNCHANGED condition
       ELSE /\ pc' = "annotate"
            /\ UNCHANGED <<tree_nodes, tree_links, condition>>
    /\ UNCHANGED <<file_count, markers, labels, raw_tree, mark_tree, label_counts,
                   tree_node_id, annot, nodes, result>>
    /\ UNCHANGED <<fcs_metadata, args, returned>>
    /\ UNCHANGED frontend

\* lines 270-417 as one function of the raw tree: the tree the handler ends
\* with, or the error it raises
normalize(rawTree, labelCounts, markerNames) ==
    LET mt == CoerceMarkTree(rawTree)
        m == IF MatrixApplies(mt) THEN MatrixBuild(mt, markerNames, labelCounts) ELSE EmptyBuild
        k == IF ~m.err /\ KeyedApplies(mt, m.nodes)
             THEN KeyedBuild(mt, markerNames, m.tree_node_id)
             ELSE m
        l == IF ~m.err /\ LevelsApplies(mt, k.nodes)
             THEN build_tree_from_mark_tree_levels(mt.elems, labelCounts)
             ELSE EmptyBuild
    IN IF m.err \/ l.err THEN [err |-> TRUE, nodes |-> <<>>, links |-> <<>>]
       ELSE [err |-> FALSE,
             nodes |-> FallbackNodes(k.nodes, l),
             links |-> FallbackLinks(k.nodes, k.links, l)]

\* lines 419-467: the call of Annotation and the population nodes
Annotate ==
    /\ pc = "annotate"
    /\ \E a \in Annotations(markers, labels, raw_tree) :
          /\ annot' = a
          /\ nodes' = PopulationNodes(labels, a, intersect(a.cols, markers), label_counts)
    /\ pc' = "assemble"
    /\ UNCHANGED <<file_count, markers, labels, raw_tree, mark_tree, label_counts,
                   tree_nodes, tree_links, tree_node_id, condition, result>>
    /\ UNCHANGED <<fcs_metadata, args, returned>>
    /\ UNCHANGED frontend

\* the *_clean lists: as.integer and as.character leave these values as they are
CleanNodes(ns) ==
    [i \in 1..Len(ns) |->
        Node(ns[i].id, ns[i].name, ns[i].marker, ns[i].cells, ns[i].threshold)]

CleanLinks(ls) == [i \in 1..Len(ls) |-> Link(ls[i].source, ls[i].target)]

SuccessFields ==
    {"nodes", "links", "treeNodes", "treeLinks", "populations", "cells", "markers",
     "markerMappings", "markerRanges", "cellData", "cellDataMarkers", "phenotypes",
     "debug_info"}

\* lines 469-591: the phenotype list and the result
Assemble ==
    /\ pc = "assemble"
    /\ result' = [fields |-> SuccessFields,
                  error |-> "",
                  nodes |-> CleanNodes(nodes),
                  links |-> <<>>,
                  treeNodes |-> CleanNodes(tree_nodes),
                  treeLinks |-> CleanLinks(tree_links),
                  populations |-> Cardinality(SeqToSet(labels)),
                  cells |-> Len(labels),
                  markers |-> markers,
                  markerMappings |-> fcs_metadata.map,
                  phenotypes |-> PhenotypesList(annot, intersect(annot.cols, markers),
                                                RColon(1, Len(annot.rows)), Len(annot.rows))]
    /\ pc' = "done"
    /\ UNCHANGED <<file_count, markers, labels, raw_tree, mark_tree, label_counts,
                   tree_nodes, tree_links, tree_node_id, annot, nodes, condition>>
    /\ UNCHANGED <<fcs_metadata, args, returned>>
    /\ UNCHANGED frontend

\* lines 592-595: the error handler returns list(error = conditionMessage(e))
ErrorHandler ==
    /\ pc = "error"
    /\ result' = [NoResult EXCEPT !.fields = {"error"}, !.error = condition]
    /\ pc' = "done"
    /\ UNCHANGED <<file_count, markers, labels, raw_tree, mark_tree, label_counts,
                   tree_nodes, tree_links, tree_node_id, annot, nodes, condition>>
    /\ UNCHANGED <<fcs_metadata, args, returned>>
    /\ UNCHANGED frontend

Next ==
    \/ LoadFiles
    \/ SelectMarkers
    \/ RunCytomeTree
    \/ MatrixStrategy
    \/ KeyedStrategy
    \/ LevelListFallback
    \/ Annotate
    \/ Assemble
    \/ ErrorHandler

Spec == Init /\ [][Next]_vars

TypeOK == pc \in {"load", "select", "cluster", "matrix", "keyed", "levels", "annotate",
                  "assemble", "error", "done", "call", "returned"}

(***************************************************************************)
(* One call of a function of the program on its own: extract_marker_       *)
(* metadata on a description, or the marker filter of the handler on the   *)
(* column names of a matrix and a request, or the sampling of the cells    *)
(* for the per-cell payload on a matrix and its labels.                    *)
(***************************************************************************)
\* the largest number of rows of the sample matrix
MaxCells == 5

\* the limit of the per-cell payload: "sample_size <- min(num_cells, 10000)",
\* scaled down to a limit that the matrices of the model exceed
SampleLimit == 3

\* a sample that may take a cell several times
SampleWithReplacement(num_cells, sample_size) ==
    IF num_cells > sample_size THEN [1..sample_size -> 1..num_cells]
    ELSE {[i \in 1..num_cells |-> i]}

\* the values sample_indices can take: sample(1:num_cells, sample_size) is
\* any arrangement of sample_size different indices, 1:num_cells is all
SampleIndices(num_cells, sample_size) ==
    IF num_cells > sample_size
    THEN {q \in [1..sample_size -> 1..num_cells] :
             \A j, k \in 1..sample_size : q[j] = q[k] => j = k}
    ELSE {[i \in 1..num_cells |-> i]}

\* cell_data: the label and the row of the matrix of every sampled cell
CellData(cell_labels, data, sample_indices) ==
    [k \in 1..Len(sample_indices) |->
        [population |-> cell_labels[sample_indices[k]], values |-> data[sample_indices[k]]]]

\* matrices of 1..MaxCells cells; the row of cell i holds the value 100 + i
CellCalls ==
    {[fn |-> "cell_data", labels |-> l, data |-> [i \in 1..Len(l) |-> <<100 + i>>]] :
        l \in UNION {[1..n -> 1..2] : n \in 1..MaxCells}}
MetadataCalls ==
    {[fn |-> "extract_marker_metadata", fcs_description |-> d] : d \in Descriptions}

ColumnNames == SeqsUpTo({S_CD3, S_CD4, S_CD8}, MaxColumns)

Requests ==
    {[null |-> TRUE, v |-> <<>>]}
    \cup {[null |-> FALSE, v |-> r] : r \in SeqsUpTo({S_CD3, S_CD4, S_FSC}, MaxRequested)}

FilterCalls ==
    {[fn |-> "marker_filter", all_markers |-> c, requested_markers |-> r] :
        c \in ColumnNames, r \in Requests}

FunctionInit ==
    /\ pc = "call"
    /\ args \in MetadataCalls \cup FilterCalls \cup CellCalls
    /\ returned = NoCall
    /\ file_count = 0
    /\ markers = <<>>
    /\ labels = <<>>
    /\ raw_tree = NullTree
    /\ mark_tree = NullTree
    /\ label_counts = <<>>
    /\ tree_nodes = <<>>
    /\ tree_links = <<>>
    /\ tree_node_id = 0
    /\ annot = NoAnnotation
    /\ nodes = <<>>
    /\ condition = ""
    /\ result = NoResult
    /\ fcs_metadata = NoMetadata
    /\ FrontendInitial

HandlerUnchanged ==
    /\ UNCHANGED <<file_count, markers, labels, raw_tree, mark_tree, label_counts, tree_nodes,
                   tree_links, tree_node_id, annot, nodes, condition, result, fcs_metadata>>
    /\ UNCHANGED frontend

CallExtractMarkerMetadata ==
    /\ pc = "call"
    /\ args.fn = "extract_marker_metadata"
    /\ returned' = [fn |-> args.fn, value |-> extract_marker_metadata(args.fcs_description)]
    /\ pc' = "returned"
    /\ UNCHANGED args
    /\ HandlerUnchanged

CallMarkerFilter ==
    /\ pc = "call"
    /\ args.fn = "marker_filter"
    /\ returned' = [fn |-> args.fn,
                    value |-> FilterMarkers(args.all_markers, args.requested_markers)]
    /\ pc' = "returned"
    /\ UNCHANGED args
    /\ HandlerUnchanged

\* lines 509-526: the sample of the cells and the per-cell payload
CallCellData ==
    /\ pc = "call"
    /\ args.fn = "cell_data"
    /\ LET num_cells == Len(args.data)
           sample_size == IF num_cells < SampleLimit THEN num_cells ELSE SampleLimit
       IN \E sample_indices \in SampleIndices(num_cells, sample_size) :
             returned' = [fn |-> args.fn,
                          value |-> CellData(args.labels, args.data, sample_indices)]
    /\ pc' = "returned"
    /\ UNCHANGED args
    /\ HandlerUnchanged

FunctionNext ==
    \/ CallExtractMarkerMetadata
    \/ CallMarkerFilter
    \/ CallCellData

FunctionSpec == FunctionInit /\ [][FunctionNext]_vars

(***************************************************************************)
(* The returned gating tree.                                               *)
(***************************************************************************)
Done == pc = "done"
Succeeded == Done /\ "treeNodes" \in result.fields
Failed == Done /\ "error" \in result.fields

TreeNodes == result.treeNodes
TreeLinks == result.treeLinks

NodeIds == {TreeNodes[i].id : i \in 1..Len(TreeNodes)}
Incoming(id) == {k \in 1..Len(TreeLinks) : TreeLinks[k].target = id}
Outgoing(id) == {k \in 1..Len(TreeLinks) : TreeLinks[k].source = id}
Roots == {id \in NodeIds : Incoming(id) = {}}
IsLeaf(id) == Outgoing(id) = {}

\* the ids reached from the ids of S by following 1..n links
RECURSIVE ReachedFrom(_, _)
ReachedFrom(S, n) ==
    IF n = 0 THEN {}
    ELSE LET next == {TreeLinks[k].target : k \in {j \in 1..Len(TreeLinks) : TreeLinks[j].source \in S}}
         IN next \cup ReachedFrom(next, n - 1)

Acyclic == \A id \in NodeIds : id \notin ReachedFrom({id}, Len(TreeLinks))

\* the tree is the one the level-list strategy builds from mark_tree
LevelOutcome == build_tree_from_mark_tree_levels(mark_tree.elems, label_counts)
FromLevels ==
    /\ is_list(mark_tree)
    /\ length(mark_tree) > 0
    /\ TreeNodes # <<>>
    /\ TreeNodes = CleanNodes(LevelOutcome.nodes)

(***************************************************************************)
(* C1: in every returned tree, the source and the target of every link are *)
(* ids of nodes of the returned node list (no dangling link), whichever    *)
(* strategy built the tree.                                                *)
(***************************************************************************)
C1_NoDanglingLinks ==
    Succeeded =>
        \A k \in 1..Len(TreeLinks) :
            TreeLinks[k].source \in NodeIds /\ TreeLinks[k].target \in NodeIds

\* a returned tree with two internal nodes and their four links
C1_Witness == Succeeded /\ Len(TreeLinks) >= 4

(***************************************************************************)
(* C2 as stated: the links of every returned tree form one rooted tree:    *)
(* exactly one node without incoming link, one incoming link for every     *)
(* other node, at most two outgoing links, no cycle; also for a level list *)
(* whose first level has several labels.                                   *)
(***************************************************************************)
C2_OneRootedTree ==
    Succeeded /\ TreeNodes # <<>> =>
        /\ Cardinality(Roots) = 1
        /\ \A id \in NodeIds \ Roots : Cardinality(Incoming(id)) = 1
        /\ \A id \in NodeIds : Cardinality(Outgoing(id)) <= 2
        /\ Acyclic

(***************************************************************************)
(* C2 amended: the links of every returned tree form a forest of rooted    *)
(* trees: every node has at most one incoming link and at most two         *)
(* outgoing links and there is no cycle.  A tree built by the matrix or    *)
(* the keyed strategy has exactly one node without incoming link; a tree   *)
(* built by the level-list strategy has one such node per label of its     *)
(* first level.                                                            *)
(***************************************************************************)
C2_Forest ==
    Succeeded /\ TreeNodes # <<>> =>
        /\ \A id \in NodeIds : Cardinality(Incoming(id)) <= 1
        /\ \A id \in NodeIds : Cardinality(Outgoing(id)) <= 2
        /\ Acyclic
        /\ Cardinality(Roots) = IF FromLevels THEN Len(UnlistLabels(mark_tree.elems[1])) ELSE 1

\* a level list with two labels in its first level was turned into a tree
\* with links
C2_Witness ==
    /\ Succeeded
    /\ FromLevels
    /\ Len(UnlistLabels(mark_tree.elems[1])) = 2
    /\ Len(TreeLinks) >= 2

(***************************************************************************)
(* C3 as stated: the returned tree is the result of exactly one strategy,  *)
(* the first in the order matrix, keyed, level-list that yields a node: a  *)
(* later strategy never replaces the non-empty result of an earlier one.   *)
(***************************************************************************)
C3_NeverReplaced ==
    [][tree_nodes # <<>> => tree_nodes' = tree_nodes /\ tree_links' = tree_links]_vars

(***************************************************************************)
(* C3 amended: the returned tree is the result of exactly one strategy,    *)
(* never a mixture of two: a non-empty result of the matrix or the keyed   *)
(* strategy is kept, except that a result of exactly one node (which has   *)
(* no link) is replaced, nodes and links together, by the result of the    *)
(* level-list strategy when that has more than one node.                   *)
(***************************************************************************)
C3_OneStrategy ==
    [][tree_nodes # <<>> =>
          \/ tree_nodes' = tree_nodes /\ tree_links' = tree_links
          \/ /\ pc = "levels"
             /\ Len(tree_nodes) = 1
             /\ tree_links = <<>>
             /\ Len(tree_nodes') > 1
             /\ tree_nodes' = LevelOutcome.nodes
             /\ tree_links' = LevelOutcome.links]_vars

\* the keyed strategy built one node and the level-list result took its place
C3_Witness ==
    /\ pc = "annotate"
    /\ KeyedApplies(mark_tree, <<>>)
    /\ Len(KeyedBuild(mark_tree, markers, 0).nodes) = 1
    /\ Len(tree_nodes) > 1
    /\ tree_nodes = LevelOutcome.nodes
    /\ tree_links # <<>>

(***************************************************************************)
(* One gating tree in the three shapes: the root splits on CD3 at 0.5 and  *)
(* its children are the populations 2 and 3.                               *)
(***************************************************************************)
SplitAsMatrix == MatrixTree(<<<<1, 1, 500, 2, 3>>>>, 5)

SplitAsKeyed ==
    ListTree(Names(<<S_root, S_CD3_0, S_CD3_1>>),
             <<ListEntry(<<S_marker, S_cut>>, <<Chr(S_CD3), Num(500)>>),
               ListEntry(<<>>, <<>>), ListEntry(<<>>, <<>>)>>,
             FALSE)

SplitAsLevels == ListTree(NoNames, <<Level(<<S_CD3>>), Level(<<S_2, <<"3">>>>)>>, FALSE)

SplitShapes == {SplitAsMatrix, SplitAsKeyed, SplitAsLevels}

BagOf(q) == [v \in SeqToSet(q) |-> Cardinality({i \in 1..Len(q) : q[i] = v})]

\* the number of leaves, the cell counts of the leaves and the marker and
\* threshold of the internal nodes of a tree
Profile(ns, ls) ==
    LET internal(n) == \E k \in 1..Len(ls) : ls[k].source = n.id
        leaf(n) == ~internal(n)
        leaves == SelectSeq(ns, leaf)
        inner == SelectSeq(ns, internal)
    IN [leaves |-> Len(leaves),
        cells |-> BagOf([i \in 1..Len(leaves) |-> leaves[i].cells]),
        splits |-> BagOf([i \in 1..Len(inner) |->
                            <<inner[i].marker, inner[i].threshold>>])]

(***************************************************************************)
(* C4: the same gating tree given as a table, as a keyed structure and as  *)
(* a level list yields isomorphic results: the same number of leaves, the  *)
(* same multiset of leaf cell counts and the same multiset of (marker,     *)
(* threshold) pairs on internal nodes.                                     *)
(***************************************************************************)
C4_IsomorphicShapes ==
    Succeeded /\ raw_tree \in SplitShapes =>
        \A other \in SplitShapes :
            LET o == normalize(other, label_counts, markers)
            IN ~o.err /\ Profile(o.nodes, o.links) = Profile(TreeNodes, TreeLinks)

RECURSIVE SumSeq(_)
SumSeq(q) == IF q = <<>> THEN 0 ELSE q[1] + SumSeq(Tail(q))

\* the cells of the leaves of the returned tree, added up
LeafCellSum ==
    LET leaf(n) == IsLeaf(n.id)
        leaves == SelectSeq(TreeNodes, leaf)
    IN SumSeq([i \in 1..Len(leaves) |-> SumSeq(leaves[i].cells.v)])

\* the populations that are the leaf Pop_<p> of the returned tree
LeafPopulations ==
    {p \in 1..Len(label_counts) :
        \E i \in 1..Len(TreeNodes) :
            IsLeaf(TreeNodes[i].id) /\ TreeNodes[i].name = S_Pop \o IntToStr(p)}

(***************************************************************************)
(* C5: in every returned non-empty tree the cells of the leaves add up to  *)
(* the number of rows of the label assignment minus the cells of the       *)
(* populations that are no leaf of the tree; no population is counted      *)
(* twice.                                                                  *)
(***************************************************************************)
C5_LeafCellsSum ==
    Succeeded /\ TreeNodes # <<>> =>
        LeafCellSum =
            Len(labels)
            - SumSeq([p \in 1..Len(label_counts) |->
                        IF p \in LeafPopulations THEN 0 ELSE label_counts[p]])

(***************************************************************************)
(* C7: the handler returns an error result if and only if no file gave     *)
(* sample data; no anomaly of the raw tree or of the annotation makes it   *)
(* an error; and an error result carries no nodes, tree or phenotypes.     *)
(***************************************************************************)
C7_ErrorIffNoData ==
    Done =>
        /\ Failed <=> file_count = 0
        /\ Failed => result.fields \cap {"nodes", "links", "treeNodes", "treeLinks",
                                         "phenotypes"} = {}

(***************************************************************************)
(* C9: in every returned tree a node has a cells value if and only if it   *)
(* is a leaf and a threshold value if and only if it is an internal node;  *)
(* the keyed input {root: {marker CD3, cut 0.5}, CD3.0: {}, CD3.1: {}}     *)
(* yields a root with marker CD3 and threshold 0.5 and two leaves with     *)
(* cells.                                                                  *)
(***************************************************************************)
C9_CellsOnLeavesThresholdOnInternal ==
    Succeeded =>
        /\ \A i \in 1..Len(TreeNodes) :
              /\ ~TreeNodes[i].cells.null <=> IsLeaf(TreeNodes[i].id)
              /\ ~TreeNodes[i].threshold.null <=> ~IsLeaf(TreeNodes[i].id)
        /\ raw_tree = SplitAsKeyed =>
              /\ Len(TreeNodes) = 3
              /\ TreeNodes[1].marker = <<S_CD3>>
              /\ TreeNodes[1].threshold = Scalar(500)
              /\ \A i \in 2..3 : IsLeaf(TreeNodes[i].id) /\ ~TreeNodes[i].cells.null

\* the row of the table that made the internal node n: the first row whose
\* id gives the name Node_<id>; 0 when there is none
RowOfNode(n) ==
    LET hits == {k \in 1..Len(mark_tree.rows) :
                    n.name = S_Node \o IntToStr(mark_tree.rows[k][1])}
    IN IF hits = {} THEN 0 ELSE CHOOSE k \in hits : \A j \in hits : k <= j

BuiltByMatrix == Succeeded /\ mark_tree.cls = "numeric" /\ MatrixApplies(mark_tree)

(***************************************************************************)
(* C10: matrix strategy: an internal node made from a row whose marker     *)
(* column index selects no element of markerNames (greater than their      *)
(* number, zero, or negative) has the marker Marker_<index>.               *)
(***************************************************************************)
C10_MarkerPlaceholder ==
    BuiltByMatrix =>
        \A i \in 1..Len(TreeNodes) :
            LET k == RowOfNode(TreeNodes[i])
            IN k # 0 /\ (mark_tree.rows[k][2] > Len(markers) \/ mark_tree.rows[k][2] < 1) =>
                   TreeNodes[i].marker = <<S_Marker \o IntToStr(mark_tree.rows[k][2])>>

\* the raw tree gives no strategy a node: it is no table of five columns
\* with a row, it has no names with a dim attribute, and it is no list, an
\* empty list, or a list whose first level has no label
NoStrategyYieldsANode(rawTree) ==
    LET mt == CoerceMarkTree(rawTree)
    IN /\ ~(~is_null(mt) /\ is_matrix(mt) /\ nrow(mt) > 0 /\ mt.ncol >= 5)
       /\ ~(is_list(mt) /\ length(mt) > 0 /\ ~mt.names.null /\ Len(mt.names.v) > 0)
       /\ is_list(mt) /\ length(mt) > 0 => Len(UnlistLabels(mt.elems[1])) = 0

\* the rows of the annotation that have a call 0 or 1 for a marker in use
CalledRows ==
    {i \in 1..Len(annot.rows) :
        \E c \in 1..Len(annot.cols) :
            /\ annot.cols[c] \in SeqToSet(markers)
            /\ annot.rows[i].calls[c] \in {Call(0), Call(1)}}

RECURSIVE ReachedIds(_, _)
ReachedIds(S, n) ==
    IF n = 0 THEN S
    ELSE ReachedIds(S \cup UNION {{mark_tree.rows[k][4], mark_tree.rows[k][5]} :
                                     k \in {j \in 1..Len(mark_tree.rows) :
                                               mark_tree.rows[j][1] \in S}},
                    n - 1)

TableIds == ReachedIds({1}, Len(mark_tree.rows))

IsRowKey(id) == match(id, mark_tree.rows) # 0

\* the rows describe a binary tree rooted at id 1: one row per id, id 1 has
\* a row, no id is the child of two rows or twice of one, id 1 is no child,
\* and the ids without a row are populations
DescribesBinaryTree ==
    LET rows == mark_tree.rows
        RowsUsing(id) == {<<k, c>> \in (1..Len(rows)) \X {4, 5} :
                             rows[k][1] \in TableIds /\ rows[k][c] = id}
    IN /\ IsRowKey(1)
       /\ \A j, k \in 1..Len(rows) : rows[j][1] = rows[k][1] => j = k
       /\ RowsUsing(1) = {}
       /\ \A id \in TableIds \ {1} : Cardinality(RowsUsing(id)) = 1
       /\ \A id \in TableIds : ~IsRowKey(id) => id \in 1..Len(label_counts)

NodesNamed(nm) == {i \in 1..Len(TreeNodes) : TreeNodes[i].name = nm}

NameOfId(id) == IF IsRowKey(id) THEN S_Node \o IntToStr(id) ELSE S_Pop \o IntToStr(id)

\* the node id given to the table id
NodeIdOf(id) == TreeNodes[CHOOSE i \in NodesNamed(NameOfId(id)) : TRUE].id

LinksOf(n) == LET from(l) == l.source = n IN SelectSeq(TreeLinks, from)

\* what the matrix strategy is to return for the table, the marker column
\* counting from base and the threshold read through Thr
MatrixContract(base, Thr(_)) ==
    /\ Len(TreeNodes) = Cardinality(TableIds)
    /\ \A id \in TableIds :
          /\ Cardinality(NodesNamed(NameOfId(id))) = 1
          /\ LET n == TreeNodes[CHOOSE i \in NodesNamed(NameOfId(id)) : TRUE]
             IN IF IsRowKey(id)
                THEN LET r == mark_tree.rows[match(id, mark_tree.rows)]
                     IN /\ n.marker = <<markers[r[2] - base + 1]>>
                        /\ n.threshold = Scalar(Thr(r[3]))
                        /\ LinksOf(n.id) = <<Link(n.id, NodeIdOf(r[4])),
                                             Link(n.id, NodeIdOf(r[5]))>>
                ELSE /\ n.cells = Scalar(label_counts[id])
                     /\ LinksOf(n.id) = <<>>

MarkerColumnsFrom(base) ==
    \A k \in 1..Len(mark_tree.rows) :
        mark_tree.rows[k][2] - base + 1 \in 1..Len(markers)

\* the result the example names: a root with marker CD3 and threshold 0.5,
\* the leaves Pop_2 (5 cells) and Pop_3 (7 cells), links to Pop_2 and Pop_3
SplitResult ==
    /\ Len(TreeNodes) = 3
    /\ TreeNodes[1].marker = <<S_CD3>>
    /\ TreeNodes[1].threshold = Scalar(500)
    /\ TreeNodes[2].name = S_Pop \o S_2
    /\ TreeNodes[2].cells = Scalar(5)
    /\ TreeNodes[3].name = S_Pop \o <<"3">>
    /\ TreeNodes[3].cells = Scalar(7)
    /\ TreeLinks = <<Link(1, 2), Link(1, 3)>>

SameThreshold(t) == t

(***************************************************************************)
(* C8 as stated: matrix strategy, for a table that describes a binary tree *)
(* rooted at id 1: every row reached gives one internal node with marker   *)
(* markerNames[markerColumnIndex], the index counting from 0 as in the     *)
(* example, and the threshold of the row; every child id without a row     *)
(* gives one leaf Pop_<id> with cells labelCounts[id]; every internal node *)
(* has two links, left child first; and the table [[1,0,0.5,2,3]] with     *)
(* markerNames ["CD3"] gives root CD3 / 0.5, Pop_2 (5), Pop_3 (7) and the  *)
(* links root to Pop_2, root to Pop_3.                                     *)
(***************************************************************************)
C8_MatrixAsStated ==
    BuiltByMatrix /\ DescribesBinaryTree /\ MarkerColumnsFrom(0) =>
        /\ MatrixContract(0, SameThreshold)
        /\ mark_tree.rows = <<<<1, 0, 500, 2, 3>>>> /\ markers = <<S_CD3>> => SplitResult

(***************************************************************************)
(* C8 amended: the same, with the marker column counting from 1            *)
(* (markerNames[markerColumnIndex] is the R element of that position), the *)
(* threshold of the row rounded to two decimals, and the example table     *)
(* [[1,1,0.5,2,3]].                                                        *)
(***************************************************************************)
C8_MatrixStrategy ==
    BuiltByMatrix /\ DescribesBinaryTree /\ MarkerColumnsFrom(1) =>
        /\ MatrixContract(1, Round2)
        /\ mark_tree.rows = <<<<1, 1, 500, 2, 3>>>> /\ markers = <<S_CD3>> => SplitResult

\* a table of two rows gave two internal nodes, one with a rounded threshold
C8_Witness ==
    /\ BuiltByMatrix
    /\ DescribesBinaryTree
    /\ MarkerColumnsFrom(1)
    /\ Len(mark_tree.rows) = 2
    /\ Len(TreeLinks) = 4
    /\ \E k \in 1..2 : Round2(mark_tree.rows[k][3]) # mark_tree.rows[k][3]

\* the population ids a leaf of the model's raw trees can name
LeafIdsNamed == ((0 - 1)..(2 * MaxRows + 2)) \cup {9}

(***************************************************************************)
(* C11: a leaf Pop_<id> whose population id lies outside the label counts  *)
(* (greater than their number, zero, or negative) is returned with         *)
(* cells = 0, and the request does not fail.                               *)
(***************************************************************************)
C11_OutOfRangeLeafHasZeroCells ==
    Succeeded =>
        \A i \in 1..Len(TreeNodes) :
            \A id \in LeafIdsNamed \ (1..Len(label_counts)) :
                TreeNodes[i].name = S_Pop \o IntToStr(id) /\ IsLeaf(TreeNodes[i].id) =>
                    TreeNodes[i].cells = Scalar(0)

\* the columns of the annotation that are markers in use and have a call 0
\* or 1 in the row, in the order of the columns
CalledColumns(row) ==
    LET called(c) == /\ annot.cols[c] \in SeqToSet(markers)
                     /\ row.calls[c] \in {Call(0), Call(1)}
    IN SelectSeq([c \in 1..Len(annot.cols) |-> c], called)

RECURSIVE JoinedBy(_, _)
JoinedBy(tokens, sep) ==
    IF tokens = <<>> THEN <<>>
    ELSE IF Len(tokens) = 1 THEN tokens[1]
    ELSE tokens[1] \o sep \o JoinedBy(Tail(tokens), sep)

\* the tokens of a row: the marker followed by pos for a call 1, neg for 0
TokensOf(row, pos, neg) ==
    LET cc == CalledColumns(row)
    IN [k \in 1..Len(cc) |->
           annot.cols[cc[k]] \o (IF row.calls[cc[k]] = Call(1) THEN pos ELSE neg)]

\* the populations of the label assignment, in increasing order
Populations == SortSet(SeqToSet(labels))

\* the rows of the annotation that give a record, in their order
RecordRows == SortSet(CalledRows)

\* every record has the key of its row and the label made of the tokens
\* written with pos and neg
RecordsCarry(pos, neg) ==
    LET rr == RecordRows
    IN /\ Len(result.phenotypes) = Len(rr)
       /\ \A k \in 1..Len(rr) :
          LET row == annot.rows[rr[k]]
          IN /\ result.phenotypes[k].key = JoinedBy(TokensOf(row, <<"=", "1">>, <<"=", "0">>), <<",">>)
             /\ result.phenotypes[k].label = JoinedBy(TokensOf(row, pos, neg), <<" ">>)

(***************************************************************************)
(* C12 as stated: every phenotype record is built from one annotation row, *)
(* the markers in use taken in column order; a call 1 gives the label      *)
(* token m+ and the key token m=1, a call 0 gives m- and m=0, any other or *)
(* missing call gives nothing; the label is the label tokens joined by a   *)
(* space and the key is the key tokens joined by a comma.                  *)
(***************************************************************************)
C12_LabelOfSignTokens == Succeeded => RecordsCarry(<<"+">>, <<"-">>)

(***************************************************************************)
(* C12 amended: the same, except that the label of a phenotype record is   *)
(* made of the key tokens m=1 and m=0 joined by a space; the tokens m+ and *)
(* m- joined by a space are the name of the population node of the row's   *)
(* population.                                                             *)
(***************************************************************************)
C12_LabelOfKeyTokens ==
    Succeeded =>
        /\ RecordsCarry(<<"=", "1">>, <<"=", "0">>)
        /\ LET pops == Populations
           IN \A n \in 1..Len(result.nodes) :
              \A i \in 1..Len(annot.rows) :
                  /\ annot.rows[i].labels = pops[n]
                  /\ \A j \in 1..(i - 1) : annot.rows[j].labels # annot.rows[i].labels
                  /\ i \in CalledRows
                  => result.nodes[n].name = JoinedBy(TokensOf(annot.rows[i], <<"+">>, <<"-">>), <<" ">>)

\* a record of two tokens with different calls, and a record of a row that
\* has a call that is neither 0 nor 1
C12_Witness ==
    /\ Succeeded
    /\ \E k \in 1..Len(result.phenotypes) :
          result.phenotypes[k].key = S_CD3 \o <<"=", "1", ",">> \o S_CD4 \o <<"=", "0">>
    /\ \E i \in CalledRows : Call(2) \in SeqToSet(annot.rows[i].calls)

\* the rows of the annotation for population p, in their order
RowsFor(p) == SortSet({i \in 1..Len(annot.rows) : annot.rows[i].labels = p})

\* population p has a row and its first row has no call 0 or 1 for a marker
\* in use
Uncalled(p) == RowsFor(p) # <<>> /\ RowsFor(p)[1] \notin CalledRows

(***************************************************************************)
(* C13 as stated: a population of the label assignment whose annotation    *)
(* row calls no marker in use 0 or 1 is still emitted, with the cell count *)
(* of the label assignment and an empty phenotype string; and no           *)
(* population of the label assignment is missing from the output.          *)
(***************************************************************************)
C13_EmptyPhenotypeString ==
    Succeeded =>
        /\ Len(result.nodes) = Len(Populations)
        /\ \A n \in 1..Len(Populations) :
              Uncalled(Populations[n]) =>
                  \/ /\ result.nodes[n].name = <<>>
                     /\ result.nodes[n].cells = Scalar(CountOf(labels, Populations[n]))
                  \/ \E k \in 1..Len(result.phenotypes) :
                        /\ result.phenotypes[k].population = Populations[n]
                        /\ result.phenotypes[k].label = <<>>
                        /\ result.phenotypes[k].count = CountOf(labels, Populations[n])

(***************************************************************************)
(* C13 amended: there is one population node per population of the label   *)
(* assignment, in increasing order of the ids, with the cell count of the  *)
(* label assignment; the node of a population whose annotation row calls   *)
(* no marker in use 0 or 1 has the name Pop_<id>, and a population all of  *)
(* whose rows are such has no record in the phenotype list.                *)
(***************************************************************************)
C13_UncalledPopulationIsPopNode ==
    Succeeded =>
        LET pops == Populations
        IN
            /\ Len(result.nodes) = Len(pops)
            /\ \A n \in 1..Len(pops) :
                  /\ result.nodes[n].id = n
                  /\ result.nodes[n].cells = Scalar(CountOf(labels, pops[n]))
                  /\ Uncalled(pops[n]) =>
                        result.nodes[n].name = S_Pop \o IntToStr(pops[n])
                  /\ (\A i \in 1..Len(annot.rows) :
                         annot.rows[i].labels = pops[n] => i \notin CalledRows)
                     => \A k \in 1..Len(result.phenotypes) :
                            result.phenotypes[k].population # pops[n]

\* a population with a row without calls was returned beside a population
\* with a called row
C13_Witness ==
    /\ Succeeded
    /\ \E p \in SeqToSet(labels) : Uncalled(p)
    /\ result.phenotypes # <<>>

(***************************************************************************)
(* C14 as stated: for every population id of the label assignment that has *)
(* no row in the annotation table, the phenotype output has a record for   *)
(* that population with label Pop_<id>, an empty key and the cell count of *)
(* the label assignment (population 4 with 2 cells: "Pop_4", "", 2).       *)
(***************************************************************************)
C14_RecordForUnannotated ==
    Succeeded =>
        \A p \in SeqToSet(labels) :
            RowsFor(p) = <<>> =>
                \E k \in 1..Len(result.phenotypes) :
                    /\ result.phenotypes[k].population = p
                    /\ result.phenotypes[k].label = S_Pop \o IntToStr(p)
                    /\ result.phenotypes[k].key = <<>>
                    /\ result.phenotypes[k].count = CountOf(labels, p)

(***************************************************************************)
(* C14 amended: for every population id of the label assignment that has   *)
(* no row in the annotation table, the population nodes have a node with   *)
(* name and marker Pop_<id> and the cell count of the label assignment,    *)
(* and the phenotype list has no record for that population (population 4  *)
(* with 2 cells: node "Pop_4" with cells 2, no record).                    *)
(***************************************************************************)
C14_NodeForUnannotated ==
    Succeeded =>
        LET pops == Populations
        IN
            \A n \in 1..Len(pops) :
                RowsFor(pops[n]) = <<>> =>
                    /\ n <= Len(result.nodes)
                    /\ result.nodes[n].name = S_Pop \o IntToStr(pops[n])
                    /\ result.nodes[n].marker = <<S_Pop \o IntToStr(pops[n])>>
                    /\ result.nodes[n].cells = Scalar(CountOf(labels, pops[n]))
                    /\ \A k \in 1..Len(result.phenotypes) :
                          result.phenotypes[k].population # pops[n]
                    /\ pops[n] = 4 /\ labels = <<2, 2, 4, 4>> =>
                          /\ result.nodes[n].name = <<"P", "o", "p", "_", "4">>
                          /\ result.nodes[n].cells = Scalar(2)

\* population 4 with 2 cells and no row was returned with a phenotype list
\* of the other rows
C14_Witness ==
    /\ Succeeded
    /\ labels = <<2, 2, 4, 4>>
    /\ RowsFor(4) = <<>>
    /\ \E k \in 1..Len(result.phenotypes) : result.phenotypes[k].population = 2

(***************************************************************************)
(* C15 as stated: the phenotype list has at most one record per population *)
(* id, only for population ids of the label assignment, and when the       *)
(* annotation table has several rows for one population id the record is   *)
(* built from the first of them.                                           *)
(***************************************************************************)
C15_OneRecordPerPopulation ==
    Succeeded =>
        /\ \A j, k \in 1..Len(result.phenotypes) :
              result.phenotypes[j].population = result.phenotypes[k].population => j = k
        /\ \A k \in 1..Len(result.phenotypes) :
              /\ result.phenotypes[k].population \in SeqToSet(labels)
              /\ result.phenotypes[k].key =
                    JoinedBy(TokensOf(annot.rows[RowsFor(result.phenotypes[k].population)[1]],
                                      <<"=", "1">>, <<"=", "0">>), <<",">>)

(***************************************************************************)
(* C15 amended: there is exactly one population node per population id of  *)
(* the label assignment, and when the annotation table has several rows    *)
(* for the id the node is named after the first of them (Pop_<id> when     *)
(* that row has no call).  The phenotype list has one record per           *)
(* annotation row that has a call, in the order of the rows, with the      *)
(* population, count and proportion of the row: several rows of one id     *)
(* give several records, and a row of an id that is not in the label       *)
(* assignment gives a record too.                                          *)
(***************************************************************************)
C15_OneNodePerPopulation ==
    Succeeded =>
        LET pops == Populations
            rr == RecordRows
        IN
            /\ Len(result.nodes) = Len(pops)
            /\ \A n \in 1..Len(pops) :
                  RowsFor(pops[n]) # <<>> =>
                      result.nodes[n].name =
                          IF RowsFor(pops[n])[1] \in CalledRows
                          THEN JoinedBy(TokensOf(annot.rows[RowsFor(pops[n])[1]],
                                                 <<"+">>, <<"-">>), <<" ">>)
                          ELSE S_Pop \o IntToStr(pops[n])
            /\ Len(result.phenotypes) = Len(rr)
            /\ \A k \in 1..Len(rr) :
                  /\ result.phenotypes[k].population = annot.rows[rr[k]].labels
                  /\ result.phenotypes[k].count = annot.rows[rr[k]].count
                  /\ result.phenotypes[k].proportion = annot.rows[rr[k]].prop

\* a population of the label assignment with two rows of different calls
\* gave one node and two records
C15_Witness ==
    /\ Succeeded
    /\ \E p \in SeqToSet(labels) :
          /\ Len(RowsFor(p)) = 2
          /\ annot.rows[RowsFor(p)[1]].calls # annot.rows[RowsFor(p)[2]].calls
          /\ Cardinality({k \in 1..Len(result.phenotypes) :
                             result.phenotypes[k].population = p}) = 2

\* extract_marker_metadata has returned the mapping of a description
MetadataReturned == pc = "returned" /\ args.fn = "extract_marker_metadata"

\* the positions of the description whose name is a parameter name key $PnN
NameKeyPositions ==
    {i \in 1..Len(args.fcs_description) : is_param_key(args.fcs_description[i].name)}

\* the technical name of the parameter of position i: the value of its key
TechnicalAt(i) == DescriptionValue(args.fcs_description, args.fcs_description[i].name).v

\* the biological name of the parameter of position i: the value of the key
\* $PnS of the same n when it is present and not empty, else the technical
BiologicalAt(i) ==
    LET b == DescriptionValue(args.fcs_description,
                              <<"$", "P">> \o param_num(args.fcs_description[i].name) \o <<"S">>)
    IN IF ~b.null /\ b.v # <<>> THEN b.v ELSE TechnicalAt(i)

\* the last position whose parameter has the technical name of position i
LastNamedLike(i) ==
    CHOOSE j \in NameKeyPositions :
        /\ TechnicalAt(j) = TechnicalAt(i)
        /\ \A k \in NameKeyPositions : TechnicalAt(k) = TechnicalAt(i) => k <= j

(***************************************************************************)
(* C16 as stated: for every parameter index n whose name key has a value   *)
(* T, the mapping has an entry under T with technical = T and biological = *)
(* the value of the biological-name key of the same index n when that key  *)
(* is present and not empty, otherwise T.                                  *)
(***************************************************************************)
C16_EntryPerParameter ==
    MetadataReturned =>
        \A i \in NameKeyPositions :
            \E k \in 1..Len(returned.value) :
                /\ returned.value[k].name = TechnicalAt(i)
                /\ returned.value[k].technical = TechnicalAt(i)
                /\ returned.value[k].biological = BiologicalAt(i)

(***************************************************************************)
(* C16 amended: the mapping has one entry per technical name T that is the *)
(* value of a name key, with technical = T; its biological name is that of *)
(* the last parameter whose name key has the value T: the value of the     *)
(* biological-name key of that index when present and not empty, otherwise *)
(* T.  The mapping has no other entry.                                     *)
(***************************************************************************)
C16_EntryPerTechnicalName ==
    MetadataReturned =>
        /\ \A i \in NameKeyPositions :
              \E k \in 1..Len(returned.value) :
                  /\ returned.value[k].name = TechnicalAt(i)
                  /\ returned.value[k].technical = TechnicalAt(i)
                  /\ returned.value[k].biological = BiologicalAt(LastNamedLike(i))
        /\ \A j, k \in 1..Len(returned.value) :
              returned.value[j].name = returned.value[k].name => j = k
        /\ \A k \in 1..Len(returned.value) :
              \E i \in NameKeyPositions : returned.value[k].name = TechnicalAt(i)

\* two parameters of one technical name and different biological names, the
\* second one taking the technical name for want of a biological name
C16_Witness ==
    /\ MetadataReturned
    /\ \E i, j \in NameKeyPositions :
          /\ i < j
          /\ TechnicalAt(i) = TechnicalAt(j)
          /\ BiologicalAt(i) # TechnicalAt(i)
          /\ BiologicalAt(j) = TechnicalAt(j)
    /\ Len(returned.value) = 1

\* the marker filter has returned the markers in use
FilterReturned == pc = "returned" /\ args.fn = "marker_filter"

\* the columns whose name is requested, in the order of the matrix
RequestedColumns ==
    LET wanted(m) == m \in SeqToSet(args.requested_markers.v)
    IN SelectSeq(args.all_markers, wanted)

(***************************************************************************)
(* C17: marker filter: when a filter is requested and at least one         *)
(* requested name is a column of the matrix, exactly the matching columns  *)
(* are used, in the column order of the matrix; when the filter matches no *)
(* column, or no filter is given, all columns are used.  So the markers in *)
(* use are never empty when the matrix has columns.                        *)
(***************************************************************************)
C17_MarkerFilterFailsOpen ==
    FilterReturned =>
        /\ returned.value =
              IF ~args.requested_markers.null /\ RequestedColumns # <<>>
              THEN RequestedColumns
              ELSE args.all_markers
        /\ args.all_markers # <<>> => returned.value # <<>>

\* two of three columns were requested in the reverse order and are used in
\* the order of the matrix
C17_Witness ==
    /\ FilterReturned
    /\ Len(args.all_markers) = 3
    /\ ~args.requested_markers.null
    /\ Len(args.requested_markers.v) = 2
    /\ returned.value = <<args.requested_markers.v[2], args.requested_markers.v[1]>>
    /\ returned.value[1] # returned.value[2]

\* the ids of the subtree of the node id: the id and all that its links reach
SubtreeIds(id) == {id} \cup ReachedFrom({id}, Len(TreeLinks))

(***************************************************************************)
(* C18: the node ids of every returned tree are exactly 1..n, with         *)
(* nodes[i].id = i, whatever the external ids are; in the matrix strategy  *)
(* the numbering is pre-order: every link has source id < target id, and   *)
(* all ids of the left subtree of a node are smaller than all ids of its   *)
(* right subtree.                                                          *)
(***************************************************************************)
C18_IdsInVisitOrder ==
    Succeeded =>
        /\ \A i \in 1..Len(TreeNodes) : TreeNodes[i].id = i
        /\ BuiltByMatrix =>
              /\ \A k \in 1..Len(TreeLinks) : TreeLinks[k].source < TreeLinks[k].target
              /\ \A n \in NodeIds :
                    Len(LinksOf(n)) = 2 =>
                        \A l \in SubtreeIds(LinksOf(n)[1].target) :
                            \A r \in SubtreeIds(LinksOf(n)[2].target) : l < r

\* a table of two rows whose left subtree took the ids 2, 3, 4 and whose
\* right child, the population 3, took the id 5
C18_Witness ==
    /\ BuiltByMatrix
    /\ Len(TreeNodes) = 5
    /\ LinksOf(1) = <<Link(1, 2), Link(1, 5)>>
    /\ TreeNodes[5].name = S_Pop \o <<"3">>

\* the children that the expansion of the id visits: those of the first row
\* of that id, none for an id without a row
ChildrenOf(id) ==
    LET i == match(id, mark_tree.rows)
    IN IF i = 0 THEN {} ELSE {mark_tree.rows[i][4], mark_tree.rows[i][5]}

RECURSIVE ExpandedFrom(_, _)
ExpandedFrom(ids, k) ==
    IF k = 0 THEN ids
    ELSE ExpandedFrom(ids \cup UNION {ChildrenOf(id) : id \in ids}, k - 1)

\* a row that the expansion from the id 1 reaches lists its own id or the id
\* of one of its ancestors as a child
ListsAnAncestor ==
    /\ MatrixApplies(mark_tree)
    /\ \E id \in ExpandedFrom({1}, nrow(mark_tree)) :
          id \in ExpandedFrom(ChildrenOf(id), nrow(mark_tree))

(***************************************************************************)
(* C19: the expansion of the matrix strategy from the id 1 ends for every  *)
(* finite table, also when a row lists its own id or the id of one of its  *)
(* ancestors as a child, and such a row does not abort the reconstruction: *)
(* the request ends with a tree.                                           *)
(***************************************************************************)
C19_MalformedRowDoesNotAbort ==
    (Done /\ ListsAnAncestor) => Succeeded /\ Len(TreeNodes) > 0

\* the keyed strategy has just built tree_nodes: the matrix strategy leaves a
\* list without nodes, and the strategy of the levels has not run yet
BuiltByKeyed == pc = "levels" /\ is_list(mark_tree) /\ Len(tree_nodes) > 0

\* the keys whose own candidate names lead back to them: the key is the name
\* that its marker and the suffix ".0" or ".1" make
NamesItself(node) ==
    \E suffix \in {<<".", "0">>, <<".", "1">>} : node.name = node.marker[1] \o suffix

(***************************************************************************)
(* C20: the keyed traversal ends for every keyed structure, also one whose *)
(* names make a key its own descendant; a key reached again adds no node   *)
(* and no link: there is at most one node per distinct key, every node has *)
(* at most one incoming link, no node is linked to itself, and the links   *)
(* are those of the first visits, one for every node but the first.        *)
(***************************************************************************)
C20_KeyedVisitsOnce ==
    BuiltByKeyed =>
        /\ \A i, j \in 1..Len(tree_nodes) :
              tree_nodes[i].name = tree_nodes[j].name => i = j
        /\ \A i \in 1..Len(tree_nodes) : tree_nodes[i].name \in SeqToSet(mark_tree.names.v)
        /\ \A i \in 1..Len(tree_nodes) :
              Cardinality({k \in 1..Len(tree_links) : tree_links[k].target = i}) <= 1
        /\ \A k \in 1..Len(tree_links) : tree_links[k].source # tree_links[k].target
        /\ Len(tree_links) = Len(tree_nodes) - 1

\* the key CD3.0 splits on CD3, so its left candidate is CD3.0 itself, and it
\* was reached from another node
C20_Witness ==
    /\ BuiltByKeyed
    /\ Len(tree_nodes) >= 2
    /\ \E i \in 2..Len(tree_nodes) :
          /\ tree_nodes[i].name = S_CD3_0
          /\ NamesItself(tree_nodes[i])

\* the id of the node that the keyed traversal made for the key, 0 for none
KeyedIdOf(key) ==
    LET hits == {i \in 1..Len(tree_nodes) : tree_nodes[i].name = key}
    IN IF hits = {} THEN 0 ELSE CHOOSE i \in hits : TRUE

\* the targets of the links of the node id, in the order of tree_links
KeyedTargetsOf(id) ==
    LET from(l) == l.source = id
        ls == SelectSeq(tree_links, from)
    IN [k \in 1..Len(ls) |-> ls[k].target]

\* what the descriptor of the key resolves to
ParsedOf(key) == parse_mark_tree_entry(ElementNamed(mark_tree, key), markers)

\* the first existing key among M suffix (when the descriptor has a marker
\* M) and N suffix
ChildKey(key, suffix) ==
    FirstPresent((IF ParsedOf(key).marker.null THEN <<>>
                  ELSE <<PasteMarker(ParsedOf(key).marker, suffix)>>)
                 \o <<key \o suffix>>,
                 mark_tree.names.v)

\* the existing children of the key, left before right
ChildKeys(key) ==
    LET left == ChildKey(key, <<".", "0">>)
        right == ChildKey(key, <<".", "1">>)
    IN (IF left.na THEN <<>> ELSE <<left.s>>) \o (IF right.na THEN <<>> ELSE <<right.s>>)

(***************************************************************************)
(* C21: in the keyed strategy the left child of a visited node named N     *)
(* whose descriptor resolves to the marker M (if any) is the first of the  *)
(* keys M.0, N.0 that exists, and the right child the first of M.1, N.1;   *)
(* every existing child is visited, the links of the node lead to its      *)
(* children only, left before right, a child that the traversal had not    *)
(* seen before is linked from the node, and a side without an existing     *)
(* candidate gives no child.                                               *)
(***************************************************************************)
C21_ChildrenByNamingConvention ==
    BuiltByKeyed =>
        \A i \in 1..Len(tree_nodes) :
            LET children == ChildKeys(tree_nodes[i].name)
                ids == [k \in 1..Len(children) |-> KeyedIdOf(children[k])]
                targets == KeyedTargetsOf(i)
            IN /\ \A k \in 1..Len(ids) : ids[k] # 0
               /\ \A k \in 1..Len(targets) : targets[k] \in SeqToSet(ids)
               /\ Len(targets) = 2 => targets = ids
               /\ (ids # <<>> /\ ids[1] > i) => (targets # <<>> /\ targets[1] = ids[1])

\* the descriptor is a list without a marker field and without the alias
\* variable of it
SuppliesNoMarker(entry) ==
    entry.isList /\ Field(entry, S_marker).null /\ Field(entry, S_variable).null

\* the marker that the descriptor supplies under marker or its alias
SuppliedMarker(entry) ==
    IF ~Field(entry, S_marker).null THEN Field(entry, S_marker).val
    ELSE Field(entry, S_variable).val

(***************************************************************************)
(* C22: in the keyed strategy a node whose descriptor supplies no marker   *)
(* (no marker field and no alias of it), also an empty descriptor and a    *)
(* descriptor that holds only a threshold field, is emitted with the       *)
(* marker "root"; a numeric marker that is an index of the marker names is *)
(* replaced by the marker name at that index.                              *)
(***************************************************************************)
C22_MissingMarkerIsRoot ==
    BuiltByKeyed =>
        \A i \in 1..Len(tree_nodes) :
            LET entry == ElementNamed(mark_tree, tree_nodes[i].name)
            IN /\ SuppliesNoMarker(entry) => tree_nodes[i].marker = <<S_root>>
               /\ (/\ entry.isList
                   /\ ~SuppliesNoMarker(entry)
                   /\ SuppliedMarker(entry).num
                   /\ SuppliedMarker(entry).n \in {1000 * k : k \in 1..Len(markers)})
                  => tree_nodes[i].marker = <<markers[SuppliedMarker(entry).n \div 1000]>>

\* the raw tree is a flat numeric sequence, not two-dimensional, of a length
\* that is a multiple of 5
FlatRowsOfFive ==
    /\ raw_tree.cls = "numeric"
    /\ ~raw_tree.dim
    /\ Len(raw_tree.rows) > 0
    /\ Len(raw_tree.rows) % 5 = 0

\* the rows of 5 consecutive values of the flat sequence
RowsOfFive ==
    [r \in 1..(Len(raw_tree.rows) \div 5) |->
        [c \in 1..5 |-> raw_tree.rows[5 * (r - 1) + c][1]]]

(***************************************************************************)
(* C23: a raw tree that is a flat numeric sequence of a length that is a   *)
(* multiple of 5 is reshaped into rows of 5 consecutive values and the     *)
(* matrix strategy is applied to them: the returned tree is the tree of    *)
(* the table that has those rows.                                          *)
(***************************************************************************)
C23_FlatSequenceReshaped ==
    (Done /\ file_count > 0 /\ FlatRowsOfFive) =>
        LET b == MatrixBuild(MatrixTree(RowsOfFive, 5), markers, label_counts)
        IN /\ Succeeded
           /\ TreeNodes = b.nodes
           /\ TreeLinks = b.links

\* the raw tree is a list of levels: a list without dim, which only the
\* level-list strategy can read
RawLevels == is_list(raw_tree) /\ ~raw_tree.dim /\ Len(raw_tree.elems) > 0

\* the labels of level l
LabelsOfLevel(l) == UnlistLabels(raw_tree.elems[l])

\* the number of labels of level l that are consumed: all of the first
\* level, and two for every internal label consumed in the level before
RECURSIVE Consumed(_)
InternalsConsumed(l) ==
    Cardinality({j \in 1..Consumed(l) : ~is_leaf_label(LabelsOfLevel(l)[j])})

Consumed(l) ==
    IF l = 1 THEN Len(LabelsOfLevel(1))
    ELSE LET open == 2 * InternalsConsumed(l - 1)
         IN IF open < Len(LabelsOfLevel(l)) THEN open ELSE Len(LabelsOfLevel(l))

RECURSIVE ConsumedBefore(_)
ConsumedBefore(l) == IF l = 1 THEN 0 ELSE ConsumedBefore(l - 1) + Consumed(l - 1)

\* the node id of the label at position j of level l
LevelNodeId(l, j) == ConsumedBefore(l) + j

\* the label at position j of level l is the k-th internal label of the level
InternalRank(l, j) ==
    Cardinality({i \in 1..j : ~is_leaf_label(LabelsOfLevel(l)[i])})

\* the children of the k-th internal node of level l: the positions 2k-1 and
\* 2k of the next level, as far as they are consumed
ChildLinks(l, j) ==
    LET k == InternalRank(l, j)
        last == IF l < Len(raw_tree.elems) THEN Consumed(l + 1) ELSE 0
        from == LevelNodeId(l, j)
    IN (IF 2 * k - 1 <= last THEN <<Link(from, LevelNodeId(l + 1, 2 * k - 1))>> ELSE <<>>)
       \o (IF 2 * k <= last THEN <<Link(from, LevelNodeId(l + 1, 2 * k))>> ELSE <<>>)

\* m is the label without a trailing suffix of a dot and digits
WithoutSuffix(label, m) ==
    \/ \E k \in 1..(Len(label) - 1) :
          /\ label[k] = "."
          /\ is_leaf_label(SubSeq(label, k + 1, Len(label)))
          /\ m = SubSeq(label, 1, k - 1)
    \/ /\ m = label
       /\ \A k \in 1..(Len(label) - 1) :
             ~(label[k] = "." /\ is_leaf_label(SubSeq(label, k + 1, Len(label))))

(***************************************************************************)
(* C24: in the level-list strategy a label made only of digits becomes a   *)
(* leaf Pop_<n> with cells = labelCounts[n]; any other label becomes an    *)
(* internal node whose marker is the label without a trailing .<digits>    *)
(* suffix.  The k-th internal node of a level gets the labels at the       *)
(* positions 2k-1 and 2k of the next level as left and right child; leaves *)
(* get no children.  For [["CD3"],["1","2"]] with counts 3 and 9 the       *)
(* result is the root CD3 with the leaves Pop_1 (3 cells) and Pop_2 (9).   *)
(***************************************************************************)
C24_LevelsConsumedInPairs ==
    (Succeeded /\ RawLevels) =>
        LET levels == Len(raw_tree.elems)
        IN /\ Len(TreeNodes) = ConsumedBefore(levels) + Consumed(levels)
           /\ \A l \in 1..levels : \A j \in 1..Consumed(l) :
                 LET label == LabelsOfLevel(l)[j]
                     n == TreeNodes[LevelNodeId(l, j)]
                     pop == StrToNat(label)
                 IN IF is_leaf_label(label)
                    THEN /\ n.name = S_Pop \o IntToStr(pop)
                         /\ pop \in 1..Len(label_counts) => n.cells = Scalar(label_counts[pop])
                         /\ LinksOf(n.id) = <<>>
                    ELSE /\ n.name = label
                         /\ WithoutSuffix(label, n.marker[1])
                         /\ LinksOf(n.id) = ChildLinks(l, j)
           /\ (/\ raw_tree.elems = <<Level(<<S_CD3>>), Level(<<S_1, S_2>>)>>
               /\ label_counts = <<3, 9>>)
              => /\ Len(TreeNodes) = 3
                 /\ TreeNodes[1].marker = <<S_CD3>>
                 /\ TreeNodes[2].name = S_Pop \o S_1 /\ TreeNodes[2].cells = Scalar(3)
                 /\ TreeNodes[3].name = S_Pop \o S_2 /\ TreeNodes[3].cells = Scalar(9)
                 /\ TreeLinks = <<Link(1, 2), Link(1, 3)>>

\* three levels: the second internal node of the second level, CD4.1, has
\* the marker CD4 and the labels at the positions 3 and 4 as children
C24_Witness ==
    /\ Succeeded
    /\ RawLevels
    /\ Len(raw_tree.elems) = 3
    /\ Len(TreeNodes) = 7
    /\ \E i \in 4..7 : TreeNodes[i].cells = Scalar(label_counts[i - 3])
    /\ TreeNodes[3].name = S_CD4_1
    /\ TreeNodes[3].marker = <<S_CD4>>
    /\ LinksOf(3) = <<Link(3, 6), Link(3, 7)>>

(***************************************************************************)
(* C25: the level-list strategy returns normally for every list of levels: *)
(* the request does not fail, and a list with a single level that holds an *)
(* internal label gives the nodes of that level and no links.              *)
(***************************************************************************)
C25_LevelsReturnNormally ==
    (Done /\ file_count > 0 /\ RawLevels) =>
        /\ Succeeded
        /\ (Len(raw_tree.elems) = 1 /\ InternalsConsumed(1) > 0) =>
              /\ Len(TreeNodes) = Len(LabelsOfLevel(1))
              /\ TreeLinks = <<>>

\* the per-cell payload of a matrix and its labels has been returned
CellDataReturned == pc = "returned" /\ args.fn = "cell_data"

(***************************************************************************)
(* C26: the per-cell payload holds exactly min(number of cells, limit)     *)
(* rows; the rows are those of pairwise distinct cells of the sample       *)
(* matrix, the population of each row is the label of that same cell, and  *)
(* when there are at most limit cells every cell appears once, in the      *)
(* original order.                                                         *)
(***************************************************************************)
C26_CellSampleBounded ==
    CellDataReturned =>
        LET cell_data == returned.value
            num_cells == Len(args.data)
        IN /\ Len(cell_data) = IF num_cells < SampleLimit THEN num_cells ELSE SampleLimit
           /\ \A j, k \in 1..Len(cell_data) :
                 cell_data[j].values = cell_data[k].values => j = k
           /\ \A k \in 1..Len(cell_data) :
                 \E i \in 1..num_cells :
                     /\ cell_data[k].values = args.data[i]
                     /\ cell_data[k].population = args.labels[i]
           /\ num_cells <= SampleLimit =>
                 \A i \in 1..num_cells :
                     /\ cell_data[i].values = args.data[i]
                     /\ cell_data[i].population = args.labels[i]

\* a matrix with more cells than the limit, of both populations, was sampled
\* out of the original order
C26_Witness ==
    /\ CellDataReturned
    /\ Len(args.data) > SampleLimit
    /\ Len(returned.value) = SampleLimit
    /\ returned.value[1].values # args.data[1]
    /\ \E j, k \in 1..Len(returned.value) :
          returned.value[j].population # returned.value[k].population


(***************************************************************************)
(* The page: App (frontend/src/App.tsx) and GatingOverview.  One action    *)
(* is one run of a handler or of a continuation between two awaits, with  *)
(* the render that follows it: the effect that starts the AI insights and *)
(* the mounting of GatingOverview are part of every action.  State        *)
(* updates of one continuation are applied together.                      *)
(***************************************************************************)
BackendUnchanged ==
    UNCHANGED <<pc, file_count, markers, labels, raw_tree, mark_tree, label_counts,
                tree_nodes, tree_links, tree_node_id, annot, nodes, condition, result,
                fcs_metadata, args, returned>>

\* the results an analysis can return: cellData and phenotypes hold the
\* populations; version tells the results of two analyses apart
AnalysisResults(version) ==
    {[null |-> FALSE, version |-> version, populations |-> P] : P \in {{1, 2}, {2, 3}}}

\* lines 269-294, up to the await: runAiInsights(data) as the closure of a
\* render where aiModels and aiModel had the given values
runAiInsights(a, w, data, models, model) ==
    IF models = <<>> \/ model = ""
    THEN [app |-> a, worker |-> w]
    ELSE [app |-> [a EXCEPT !.aiLoading = TRUE, !.aiError = "", !.aiInsight = NoInsight],
          worker |-> [w EXCEPT !.insights[data.version] = @ + 1]]

\* lines 148-159: the effect that runs after a render
AutoRunEffect(a, w) ==
    IF a.treeData.null \/ a.aiModels = <<>> \/ a.aiLoading \/ ~a.aiInsight.null
       \/ a.aiError # ""
    THEN [app |-> a, worker |-> w]
    ELSE runAiInsights(a, w, a.treeData, a.aiModels, a.aiModel)

\* App.tsx lines 1083-1095, GatingOverview.tsx lines 21-25: GatingOverview
\* is rendered while there is cellData; its useState initializer runs when
\* it is mounted
MountOverview(a, o) ==
    IF a.treeData.null \/ a.treeData.populations = {}
    THEN [mounted |-> FALSE, visiblePopulations |-> {}]
    ELSE IF o.mounted THEN o
    ELSE [mounted |-> TRUE, visiblePopulations |-> a.treeData.populations]

\* the render after the state updates a and w
Render(a, w) ==
    LET r == AutoRunEffect(a, w)
    IN /\ app' = r.app
       /\ worker' = r.worker
       /\ overview' = MountOverview(r.app, overview)

\* lines 124-146: the list of models arrives (empty when the request failed)
LoadModels ==
    /\ pc = "page"
    /\ worker.models
    /\ \E models \in {<<>>, <<"model">>} :
          Render([app EXCEPT !.aiModels = models,
                             !.aiModel = IF models # <<>> /\ @ = "" THEN models[1] ELSE @],
                 [worker EXCEPT !.models = FALSE])
    /\ UNCHANGED <<progressTimerRef, run, toggled, started>>
    /\ BackendUnchanged

\* lines 120-122
handleFileSelect ==
    /\ pc = "page"
    /\ \E files \in 0..MaxSelected :
          /\ files # app.selectedFiles
          /\ Render([app EXCEPT !.selectedFiles = files], worker)
    /\ UNCHANGED <<progressTimerRef, run, toggled, started>>
    /\ BackendUnchanged

\* Math.round(((i + 1) / n) * 60)
ReadProgress(read, files) == (2 * 60 * read + files) \div (2 * files)

Max(a, b) == IF a > b THEN a ELSE b

\* lines 479-490: the button is disabled while analyzing and without files
handleAnalyze ==
    /\ pc = "page"
    /\ ~app.analyzing
    /\ app.selectedFiles > 0
    /\ started.analyses < MaxAnalyses
    /\ started' = [started EXCEPT !.analyses = @ + 1]
    /\ run' = [at |-> "reading", read |-> 0, files |-> app.selectedFiles,
               aiModels |-> app.aiModels, aiModel |-> app.aiModel]
    /\ Render([app EXCEPT !.analyzing = TRUE, !.error = "", !.progress = 0,
                          !.aiError = "", !.aiInsight = NoInsight],
              worker)
    /\ UNCHANGED <<progressTimerRef, toggled>>
    /\ BackendUnchanged

\* lines 496-526: a file is read; after the last one the timer of the
\* progress bar starts and the request is sent
FileRead ==
    /\ pc = "page"
    /\ run.at = "reading"
    /\ LET read == run.read + 1
           last == read = run.files
           shown == ReadProgress(read, run.files)
       IN /\ run' = [run EXCEPT !.read = read, !.at = IF last THEN "fetching" ELSE @]
          /\ progressTimerRef' = last
          /\ Render([app EXCEPT !.progress = IF last THEN Max(shown, 65) ELSE shown],
                    worker)
    /\ UNCHANGED <<toggled, started>>
    /\ BackendUnchanged

\* the catch block without the finally block
FailsWithoutFinally(message) ==
    /\ run' = NoRun
    /\ Render([app EXCEPT !.error = message], worker)
    /\ UNCHANGED <<progressTimerRef, toggled, started>>
    /\ BackendUnchanged

\* lines 560-568: catch and finally
Fails(message) ==
    /\ run' = NoRun
    /\ progressTimerRef' = FALSE
    /\ Render([app EXCEPT !.error = message, !.analyzing = FALSE], worker)
    /\ UNCHANGED <<toggled, started>>
    /\ BackendUnchanged

\* lines 498-508: the reader rejects
FileReadFails ==
    /\ pc = "page"
    /\ run.at = "reading"
    /\ Fails("Failed to read file")

\* lines 523-525: one tick of the interval
ProgressTick ==
    /\ pc = "page"
    /\ progressTimerRef
    /\ app.progress < 95
    /\ Render([app EXCEPT !.progress = @ + 1], worker)
    /\ UNCHANGED <<progressTimerRef, run, toggled, started>>
    /\ BackendUnchanged

\* lines 535-538
ResponseNotOk ==
    /\ pc = "page"
    /\ run.at = "fetching"
    /\ Fails("API error")

\* lines 540-544
ResponseWithError ==
    /\ pc = "page"
    /\ run.at = "fetching"
    /\ Fails("error of the analysis")

\* lines 546-568: the result is displayed and the AI insights are asked for
ResponseOk ==
    /\ pc = "page"
    /\ run.at = "fetching"
    /\ \E data \in AnalysisResults(started.analyses) :
          LET shown == [app EXCEPT !.progress = 100, !.treeData = data]
              r == runAiInsights(shown, worker, data, run.aiModels, run.aiModel)
          IN Render([r.app EXCEPT !.analyzing = FALSE], r.worker)
    /\ run' = NoRun
    /\ progressTimerRef' = FALSE
    /\ UNCHANGED <<toggled, started>>
    /\ BackendUnchanged

\* line 851: the Regenerate button, disabled while aiLoading
Regenerate ==
    /\ pc = "page"
    /\ ~app.treeData.null
    /\ app.aiModels # <<>>
    /\ ~app.aiLoading
    /\ started.regenerate < MaxRegenerate
    /\ started' = [started EXCEPT !.regenerate = @ + 1]
    /\ LET r == runAiInsights(app, worker, app.treeData, app.aiModels, app.aiModel)
       IN Render(r.app, r.worker)
    /\ UNCHANGED <<progressTimerRef, run, toggled>>
    /\ BackendUnchanged

\* lines 277-293: the worker answers a request made for the data of a version
InsightsArrive ==
    /\ pc = "page"
    /\ \E version \in DOMAIN worker.insights :
          /\ worker.insights[version] > 0
          /\ Render([app EXCEPT !.aiInsight = [null |-> FALSE, version |-> version],
                                !.aiLoading = FALSE],
                    [worker EXCEPT !.insights[version] = @ - 1])
    /\ UNCHANGED <<progressTimerRef, run, toggled, started>>
    /\ BackendUnchanged

\* lines 287-293: the request fails
InsightsFail ==
    /\ pc = "page"
    /\ \E version \in DOMAIN worker.insights :
          /\ worker.insights[version] > 0
          /\ Render([app EXCEPT !.aiError = "AI request failed", !.aiLoading = FALSE],
                    [worker EXCEPT !.insights[version] = @ - 1])
    /\ UNCHANGED <<progressTimerRef, run, toggled, started>>
    /\ BackendUnchanged

\* lines 205-235, up to the await: runGranularAnalysis(nodeId)
runGranularAnalysis(a, w, nodeId) ==
    LET opened == [a EXCEPT !.granularInsight = NoGranular, !.selectedNodeId = nodeId,
                            !.showGranularModal = TRUE]
    IN IF a.treeData.null \/ a.aiModel = ""
       THEN [app |-> [opened EXCEPT !.granularLoading = FALSE], worker |-> w]
       ELSE IF nodeId \notin a.treeData.populations
       THEN [app |-> [opened EXCEPT !.granularLoading = FALSE,
                                    !.granularInsight =
                                        [null |-> FALSE, node |-> nodeId,
                                         error |-> "Phenotype not found"]],
             worker |-> w]
       ELSE [app |-> [opened EXCEPT !.granularLoading = TRUE],
             worker |-> [w EXCEPT !.granular[nodeId] = @ + 1]]

\* lines 237-244: a click on a leaf of the tree; the overlay of the modal
\* covers the tree while it is shown
handleLeafNodeClick ==
    /\ pc = "page"
    /\ ~app.treeData.null
    /\ ~app.showGranularModal
    /\ started.clicks < MaxLeafClicks
    /\ started' = [started EXCEPT !.clicks = @ + 1]
    /\ \E nodeId \in app.treeData.populations :
          LET r == runGranularAnalysis(app, worker, nodeId)
          IN Render(r.app, r.worker)
    /\ UNCHANGED <<progressTimerRef, run, toggled>>
    /\ BackendUnchanged

\* lines 1157-1166: the modal is closed
CloseModal ==
    /\ pc = "page"
    /\ app.showGranularModal
    /\ Render([app EXCEPT !.showGranularModal = FALSE], worker)
    /\ UNCHANGED <<progressTimerRef, run, toggled, started>>
    /\ BackendUnchanged

\* lines 222-234: the worker answers the request made for a node
GranularArrives ==
    /\ pc = "page"
    /\ \E nodeId \in DOMAIN worker.granular :
          /\ worker.granular[nodeId] > 0
          /\ Render([app EXCEPT !.granularInsight =
                                    [null |-> FALSE, node |-> nodeId, error |-> ""],
                                !.granularLoading = FALSE],
                    [worker EXCEPT !.granular[nodeId] = @ - 1])
    /\ UNCHANGED <<progressTimerRef, run, toggled, started>>
    /\ BackendUnchanged

\* lines 229-234: the request fails
GranularFails ==
    /\ pc = "page"
    /\ \E nodeId \in DOMAIN worker.granular :
          /\ worker.granular[nodeId] > 0
          /\ Render([app EXCEPT !.granularInsight =
                                    [null |-> FALSE, node |-> nodeId,
                                     error |-> "Failed to analyze node"],
                                !.granularLoading = FALSE],
                    [worker EXCEPT !.granular[nodeId] = @ - 1])
    /\ UNCHANGED <<progressTimerRef, run, toggled, started>>
    /\ BackendUnchanged

\* GatingOverview.tsx lines 27-36: a click on a population of the legend
togglePopulation ==
    /\ pc = "page"
    /\ overview.mounted
    /\ started.toggles < MaxToggles
    /\ started' = [started EXCEPT !.toggles = @ + 1]
    /\ \E popId \in app.treeData.populations :
          /\ overview' = [overview EXCEPT !.visiblePopulations =
                              IF popId \in @ THEN @ \ {popId} ELSE @ \cup {popId}]
          /\ toggled' = IF popId \in toggled THEN toggled \ {popId}
                        ELSE toggled \cup {popId}
    /\ UNCHANGED <<app, progressTimerRef, run, worker>>
    /\ BackendUnchanged

PageInit ==
    /\ pc = "page"
    /\ file_count = 0
    /\ markers = <<>>
    /\ labels = <<>>
    /\ raw_tree = NullTree
    /\ mark_tree = NullTree
    /\ label_counts = <<>>
    /\ tree_nodes = <<>>
    /\ tree_links = <<>>
    /\ tree_node_id = 0
    /\ annot = NoAnnotation
    /\ nodes = <<>>
    /\ condition = ""
    /\ result = NoResult
    /\ fcs_metadata = NoMetadata
    /\ args = NoCall
    /\ returned = NoCall
    /\ FrontendInitial

\* the analyses and the AI insights of the displayed result
InsightsNext ==
    \/ LoadModels
    \/ handleFileSelect
    \/ handleAnalyze
    \/ FileRead
    \/ FileReadFails
    \/ ResponseNotOk
    \/ ResponseWithError
    \/ ResponseOk
    \/ Regenerate
    \/ InsightsArrive
    \/ InsightsFail

InsightsSpec == PageInit /\ [][InsightsNext]_vars

\* the analyses and the granular analysis of a leaf
GranularNext ==
    \/ LoadModels
    \/ handleFileSelect
    \/ handleAnalyze
    \/ FileRead
    \/ ResponseOk
    \/ handleLeafNodeClick
    \/ CloseModal
    \/ GranularArrives
    \/ GranularFails

GranularSpec == PageInit /\ [][GranularNext]_vars

\* the analyses and the progress bar
AnalyzeNext ==
    \/ LoadModels
    \/ handleFileSelect
    \/ handleAnalyze
    \/ FileRead
    \/ FileReadFails
    \/ ProgressTick
    \/ ResponseNotOk
    \/ ResponseWithError
    \/ ResponseOk

AnalyzeSpec == PageInit /\ [][AnalyzeNext]_vars

\* a read ends (FileReader calls onload or onerror) and the request to the
\* API settles
AnalyzeFairSpec ==
    /\ AnalyzeSpec
    /\ WF_vars(FileRead \/ FileReadFails)
    /\ WF_vars(ResponseNotOk \/ ResponseWithError \/ ResponseOk)

\* the analyses and the legend of GatingOverview
OverviewNext ==
    \/ handleFileSelect
    \/ handleAnalyze
    \/ FileRead
    \/ ResponseOk
    \/ togglePopulation

OverviewSpec == PageInit /\ [][OverviewNext]_vars


(***************************************************************************)
(* The AI insights of the page.                                            *)
(***************************************************************************)
RECURSIVE SumOver(_, _)
SumOver(f, S) ==
    IF S = {} THEN 0
    ELSE LET x == CHOOSE y \in S : TRUE IN f[x] + SumOver(f, S \ {x})

\* the number of AI insights requests in flight
InsightsInFlight == SumOver(worker.insights, DOMAIN worker.insights)

(***************************************************************************)
(* C27: under any interleaving of analyses and AI requests, at most one AI *)
(* insights request is in flight at a time, and once none is in flight a   *)
(* non-null aiInsight was computed from the treeData that is displayed     *)
(* (the response for an earlier treeData has not overwritten the insight   *)
(* of a later one).                                                        *)
(***************************************************************************)
C27_InsightOfDisplayedData ==
    pc = "page" =>
        /\ InsightsInFlight <= 1
        /\ (InsightsInFlight = 0 /\ ~app.aiInsight.null)
               => app.aiInsight.version = app.treeData.version


(***************************************************************************)
(* C28: when leaves are clicked one after another while an earlier         *)
(* granular request is pending, the granularInsight of the modal belongs   *)
(* to selectedNodeId, and granularLoading is true exactly while the        *)
(* request for selectedNodeId is pending (a late response for an earlier   *)
(* node has not replaced the result nor cleared the flag of the later      *)
(* one).                                                                   *)
(***************************************************************************)
C28_GranularOfSelectedNode ==
    (pc = "page" /\ app.selectedNodeId # NoNode) =>
        /\ ~app.granularInsight.null => app.granularInsight.node = app.selectedNodeId
        /\ app.granularLoading <=> worker.granular[app.selectedNodeId] > 0


(***************************************************************************)
(* The invocations of handleAnalyze.                                       *)
(***************************************************************************)
\* the invocation of handleAnalyze returns
EndOfRun == run.at # "idle" /\ run'.at = "idle"

\* the analysis succeeded: the result of this invocation is displayed
SuccessfulEnd ==
    /\ app'.error = ""
    /\ app'.progress = 100
    /\ app'.treeData.version = started.analyses

\* the analysis failed: a file read, the HTTP status or the error field
FailedEnd ==
    /\ app'.error # ""
    /\ app'.treeData = app.treeData
    /\ app'.progress = app.progress

Ticked == progressTimerRef /\ app'.progress = app.progress + 1

(***************************************************************************)
(* C29: every invocation of handleAnalyze with at least one selected file  *)
(* eventually ends with analyzing = false and no progress timer running;   *)
(* it ends either in success or, when a file read fails, the response is   *)
(* not ok or it carries an error field, with error set and treeData at its *)
(* previous value; progress is 100 only after a success, and a tick of the *)
(* timer never raises it above 95.                                         *)
(***************************************************************************)
C29_AnalyzeAlwaysEnds ==
    /\ app.analyzing ~> (~app.analyzing /\ ~progressTimerRef)
    /\ [][EndOfRun => /\ ~app'.analyzing
                      /\ ~progressTimerRef'
                      /\ SuccessfulEnd \/ FailedEnd]_vars
    /\ [][Ticked => app'.progress <= 95]_vars
    /\ [](app.progress = 100 => /\ app.error = ""
                                /\ ~app.treeData.null
                                /\ app.treeData.version = started.analyses)
    /\ [](~app.analyzing => ~progressTimerRef)

\* the second analysis failed after the progress bar had ticked up to 95:
\* the result of the first one is still displayed
C29_Witness ==
    /\ started.analyses = 2
    /\ ~app.analyzing
    /\ ~progressTimerRef
    /\ app.error = "API error"
    /\ app.progress = 95
    /\ app.treeData.version = 1


(***************************************************************************)
(* The legend of GatingOverview.                                           *)
(***************************************************************************)
\* GatingOverview.tsx line 125: the cells of a population are drawn faded
Hidden(popId) == popId \notin overview.visiblePopulations

(***************************************************************************)
(* C30: after any sequence of analysis results and togglePopulation calls, *)
(* a population of the current cellData is hidden only if it was toggled   *)
(* an odd number of times: every population of a newly displayed result    *)
(* starts visible, also one whose id did not occur in the previous result. *)
(***************************************************************************)
C30_HiddenOnlyByToggle ==
    (pc = "page" /\ overview.mounted) =>
        \A popId \in app.treeData.populations : Hidden(popId) => popId \in toggled

====
